---- MODULE Spec2Model ----
(***************************************************************************)
(* Validation and masking engine of the ARC-Hawk scanner SDK.              *)
(*                                                                         *)
(* Strings are sequences of one-character strings, so that slicing,        *)
(* cleaning, case conversion and substring search are computed the way     *)
(* the Python code computes them.                                          *)
(***************************************************************************)
EXTENDS Integers, Sequences, FiniteSets, TLC

VARIABLES
    presidio_result,   \* the candidate of the last validate_and_create_finding call
    verified,          \* what that call returned: a VerifiedFinding or None
    printed,           \* the messages that call printed
    validator_calls,   \* how many times that call invoked a type validator
    context_calls,     \* how many times that call invoked the context validator
    exclusion_list,    \* _context_validator.exclusion_list (module-level state)
    last_call,         \* the public function of the pipeline called last
    n_calls            \* number of pipeline calls made so far

valVars == <<presidio_result, verified, printed, validator_calls, context_calls,
             exclusion_list, last_call, n_calls>>

\* the masking adapters: the adapter under test and its fields, the storage it
\* acts on, the clock, the record of the latest call and of the
\* latest mask_findings call
VARIABLES backup_enabled, dry_run, backup_dir_writable, db_up,
          adapter, fs_files, fs_backups, pg_db, pg_aborted, clock, last_op,
          last_mask, n_ops, pc, read_content, conc_call

maskVars == <<backup_enabled, dry_run, backup_dir_writable, db_up,
              adapter, fs_files, fs_backups, pg_db, pg_aborted, clock, last_op,
              last_mask, n_ops>>

\* the concurrent callers' program counters and the content each has read
concVars == <<pc, read_content, conc_call>>

\* the masking policy a caller holds, whether validate() was called on it
\* since it was loaded, and the record of the latest call of the policy engine
VARIABLES policy, policy_checked, pol_op

polVars == <<policy, policy_checked, pol_op>>

\* a validator called on its own: the argument drawn and the record of the
\* latest call
VARIABLES fn_input, fn_output

fnVars == <<fn_input, fn_output>>

\* the heuristic scanner: the content and the patterns of the latest scan,
\* the score it gave each match, and the findings it returned
VARIABLES scan_content, scan_patterns, scan_scored, scan_findings

scanVars == <<scan_content, scan_patterns, scan_scored, scan_findings>>

\* the analyzer engine: SharedAnalyzerEngine._instance, the engines
\* initialized so far, and for each thread inside get_engine its position,
\* the engine it is building and the engine it returned
VARIABLES engine_instance, engines_initialized, engine_pc, engine_built, engine_returned

engVars == <<engine_instance, engines_initialized, engine_pc, engine_built, engine_returned>>

---------------------------------------------------------------------------
(* Characters and Python's str methods.                                    *)

DigitChars == <<"0","1","2","3","4","5","6","7","8","9">>
UpperChars == <<"A","B","C","D","E","F","G","H","I","J","K","L","M",
                "N","O","P","Q","R","S","T","U","V","W","X","Y","Z">>
LowerChars == <<"a","b","c","d","e","f","g","h","i","j","k","l","m",
                "n","o","p","q","r","s","t","u","v","w","x","y","z">>

Range(s) == {s[i] : i \in DOMAIN s}

IsDigitChar(c) == c \in Range(DigitChars)
IsUpperChar(c) == c \in Range(UpperChars)
IsLowerChar(c) == c \in Range(LowerChars)
IsAlphaChar(c) == IsUpperChar(c) \/ IsLowerChar(c)
IsAlnumChar(c) == IsAlphaChar(c) \/ IsDigitChar(c)
\* \w of the re module
IsWordChar(c) == IsAlnumChar(c) \/ c = "_"

IndexIn(seq, c) == CHOOSE i \in DOMAIN seq : seq[i] = c
\* int(c) for a digit character
DigitVal(c) == IndexIn(DigitChars, c) - 1

\* str.upper(), str.lower()
Upper(s) ==
    [i \in DOMAIN s |->
        IF IsLowerChar(s[i]) THEN UpperChars[IndexIn(LowerChars, s[i])] ELSE s[i]]
Lower(s) ==
    [i \in DOMAIN s |->
        IF IsUpperChar(s[i]) THEN LowerChars[IndexIn(UpperChars, s[i])] ELSE s[i]]

\* str.isdigit(): false on the empty string
IsDigitStr(s) == Len(s) > 0 /\ \A i \in DOMAIN s : IsDigitChar(s[i])

\* s.replace(c, '') for a single character c
RemoveChar(s, c) == SelectSeq(s, LAMBDA x : x # c)
\* ''.join(ch for ch in s if ch.isdigit())
OnlyDigits(s) == SelectSeq(s, IsDigitChar)

\* Python slices s[a:b], s[a:], s[:b] (0-based, non-negative bounds)
Slice(s, a, b) ==
    LET hi == IF b > Len(s) THEN Len(s) ELSE b
    IN  IF a >= hi THEN <<>> ELSE SubSeq(s, a + 1, hi)
From(s, a) == Slice(s, a, Len(s))
Take(s, b) == Slice(s, 0, b)
\* s[-k:] for k >= 1
LastK(s, k) == IF k >= Len(s) THEN s ELSE SubSeq(s, Len(s) - k + 1, Len(s))

StartsWith(s, pre) == Len(pre) <= Len(s) /\ SubSeq(s, 1, Len(pre)) = pre
EndsWith(s, suf) == Len(suf) <= Len(s) /\ LastK(s, Len(suf)) = suf

\* needle in hay
Contains(hay, needle) ==
    \E i \in 0..(Len(hay) - Len(needle)) : Slice(hay, i, i + Len(needle)) = needle

\* s.count(c) for a single character c
CountChar(s, c) == Len(SelectSeq(s, LAMBDA x : x = c))

\* str.strip(): blanks removed at both ends
RECURSIVE LStrip(_)
LStrip(s) == IF Len(s) > 0 /\ s[1] = " " THEN LStrip(Tail(s)) ELSE s
RECURSIVE RStrip(_)
RStrip(s) ==
    IF Len(s) > 0 /\ s[Len(s)] = " " THEN RStrip(SubSeq(s, 1, Len(s) - 1)) ELSE s
Strip(s) == RStrip(LStrip(s))

\* len(set(s))
DistinctChars(s) == Cardinality(Range(s))

\* s * n
Repeat(s, n) ==
    IF n <= 0 \/ Len(s) = 0 THEN <<>>
    ELSE [i \in 1..(n * Len(s)) |-> s[((i - 1) % Len(s)) + 1]]

---------------------------------------------------------------------------
(* sdk/validators: one validator per PII type.                              *)

\* Verhoeff.d: multiplication table of the dihedral group D5
Verhoeff_d == <<
    <<0, 1, 2, 3, 4, 5, 6, 7, 8, 9>>,
    <<1, 2, 3, 4, 0, 6, 7, 8, 9, 5>>,
    <<2, 3, 4, 0, 1, 7, 8, 9, 5, 6>>,
    <<3, 4, 0, 1, 2, 8, 9, 5, 6, 7>>,
    <<4, 0, 1, 2, 3, 9, 5, 6, 7, 8>>,
    <<5, 9, 8, 7, 6, 0, 4, 3, 2, 1>>,
    <<6, 5, 9, 8, 7, 1, 0, 4, 3, 2>>,
    <<7, 6, 5, 9, 8, 2, 1, 0, 4, 3>>,
    <<8, 7, 6, 5, 9, 3, 2, 1, 0, 4>>,
    <<9, 8, 7, 6, 5, 4, 3, 2, 1, 0>> >>

\* Verhoeff.p: permutation table
Verhoeff_p == <<
    <<0, 1, 2, 3, 4, 5, 6, 7, 8, 9>>,
    <<1, 5, 7, 6, 2, 8, 3, 0, 9, 4>>,
    <<5, 8, 0, 3, 7, 9, 6, 1, 4, 2>>,
    <<8, 9, 1, 6, 0, 4, 3, 5, 2, 7>>,
    <<9, 4, 5, 3, 1, 2, 6, 8, 7, 0>>,
    <<4, 2, 8, 6, 5, 7, 3, 9, 0, 1>>,
    <<2, 7, 9, 3, 8, 0, 6, 4, 1, 5>>,
    <<7, 0, 4, 6, 9, 1, 3, 2, 5, 8>> >>

\* Verhoeff.inv
Verhoeff_inv == <<0, 4, 3, 2, 1, 5, 6, 7, 8, 9>>

\* the loop of Verhoeff.validate / generate_check_digit: the digit at
\* 0-based position i from the right is permuted with row (i + shift) % 8
RECURSIVE VerhoeffFold(_, _, _, _)
VerhoeffFold(s, i, shift, checksum) ==
    IF i >= Len(s) THEN checksum
    ELSE VerhoeffFold(s, i + 1, shift,
            Verhoeff_d[checksum + 1]
                      [Verhoeff_p[((i + shift) % 8) + 1][DigitVal(s[Len(s) - i]) + 1] + 1])

Verhoeff_validate(number_str) ==
    IF Len(number_str) = 0 THEN FALSE
    ELSE IF ~IsDigitStr(number_str) THEN FALSE
    ELSE VerhoeffFold(number_str, 0, 0, 0) = 0

\* a generator that permutes the digits with the rows validate uses, (i % 8)
\* instead of ((i + 1) % 8), against which C16 is checked
C16_check_digit_unshifted(number_str) ==
    <<DigitChars[Verhoeff_inv[VerhoeffFold(number_str, 0, 0, 0) + 1] + 1]>>

\* defined for a non-empty string of digits (the code raises ValueError otherwise)
Verhoeff_generate_check_digit(number_str) ==
    <<DigitChars[Verhoeff_inv[VerhoeffFold(number_str, 0, 1, 0) + 1] + 1]>>

validate_aadhaar(number) ==
    LET clean == OnlyDigits(number)
    IN  IF Len(clean) # 12 THEN FALSE
        ELSE IF clean[1] \in {"0", "1"} THEN FALSE
        ELSE Verhoeff_validate(clean)

\* the loop of Luhn.validate: digits are visited left to right, the ones whose
\* 0-based index has the given parity are doubled
RECURSIVE LuhnFold(_, _, _, _)
LuhnFold(s, i, parity, total) ==
    IF i >= Len(s) THEN total
    ELSE LET d0 == DigitVal(s[i + 1])
             d1 == IF i % 2 = parity
                   THEN (IF d0 * 2 > 9 THEN d0 * 2 - 9 ELSE d0 * 2)
                   ELSE d0
         IN  LuhnFold(s, i + 1, parity, total + d1)

Luhn_validate(number_str) ==
    IF Len(number_str) = 0 \/ ~IsDigitStr(number_str) THEN FALSE
    ELSE IF Len(number_str) < 13 THEN FALSE
    ELSE LuhnFold(number_str, 0, Len(number_str) % 2, 0) % 10 = 0

validate_credit_card(number) ==
    LET clean == OnlyDigits(number)
    IN  IF Len(clean) < 13 \/ Len(clean) > 19 THEN FALSE
        ELSE Luhn_validate(clean)

\* PANValidator.VALID_ENTITY_TYPES
VALID_ENTITY_TYPES == {"P", "C", "H", "F", "A", "T", "B", "L", "J", "G"}

\* PANValidator._validate_check_digit: the loop over the first 9 characters
RECURSIVE PanWeightedSum(_, _)
PanWeightedSum(pan, i) ==
    IF i >= 9 THEN 0
    ELSE LET char == pan[i + 1]
             value == IF IsAlphaChar(char) THEN IndexIn(UpperChars, char) - 1 + 10 ELSE DigitVal(char)
         IN  value * (i + 1) + PanWeightedSum(pan, i + 1)

PAN_expected_check(pan) == UpperChars[(PanWeightedSum(pan, 0) % 26) + 1]

\* a check that takes the remainder modulo 25, against which C18 is checked
C18_check_digit_mod_25(pan) == pan[10] = UpperChars[(PanWeightedSum(pan, 0) % 25) + 1]

PAN_validate_check_digit(pan) == pan[10] = PAN_expected_check(pan)

\* the code indicators of PANValidator.validate, lower-cased as the code does
PAN_code_indicators == {
    <<"t","e","s","t","_">>, <<"e","x","a","m","p","l","e">>, <<"s","a","m","p","l","e">>, <<"d","e","m","o">>, <<"d","u","m","m","y">>,
    <<"d","e","f"," ">>, <<"c","l","a","s","s"," ">>, <<"i","m","p","o","r","t"," ">>, <<"\"","\"","\"">>, <<"'","'","'">>,
    <<".","p","y">>, <<".","j","s">>, <<".","j","a","v","a">>, <<"t","e","s","t">> }

PAN_sequential == { <<"A","B","C","D","E">>, <<"B","C","D","E","F">>, <<"C","D","E","F","G">>, <<"D","E","F","G","H">>, <<"E","F","G","H","I">>, <<"F","G","H","I","J">> }

PANValidator_validate(pan, context) ==
    IF Len(pan) = 0 THEN FALSE
    ELSE
    LET clean == RemoveChar(RemoveChar(Upper(pan), " "), "-")
        first_5 == Take(clean, 5)
        digits == Slice(clean, 5, 9)
    IN  IF Len(clean) # 10 THEN FALSE
        ELSE IF ~(/\ \A i \in DOMAIN first_5 : IsAlphaChar(first_5[i])
                  /\ IsDigitStr(digits)
                  /\ IsAlphaChar(clean[10]))
            THEN FALSE
        ELSE IF clean[4] \notin VALID_ENTITY_TYPES THEN FALSE
        ELSE IF DistinctChars(first_5) = 1 THEN FALSE
        ELSE IF \E i \in 0..1 : DistinctChars(Slice(first_5, i, i + 4)) = 1 THEN FALSE
        ELSE IF first_5 \in PAN_sequential THEN FALSE
        ELSE IF DistinctChars(digits) = 1 THEN FALSE
        ELSE IF Len(context) > 0
                /\ \E ind \in PAN_code_indicators : Contains(Lower(context), ind)
            THEN FALSE
        ELSE IF ~PAN_validate_check_digit(clean) THEN FALSE
        ELSE TRUE

\* the pipeline calls validator(matched_value): context keeps its default ""
validate_pan(pan) == PANValidator_validate(pan, <<>>)

\* IndianPhoneValidator._clean_phone
Phone_clean_phone(phone) ==
    LET clean == RemoveChar(RemoveChar(RemoveChar(RemoveChar(phone, " "), "-"), "("), ")")
    IN  IF StartsWith(clean, <<"+","9","1">>) THEN From(clean, 3)
        ELSE IF StartsWith(clean, <<"9","1">>) /\ Len(clean) = 12 THEN From(clean, 2)
        ELSE IF StartsWith(clean, <<"0">>) /\ Len(clean) = 11 THEN From(clean, 1)
        ELSE clean

\* ''.join(str((start + step * i) % 10) for i in range(10))
SequentialFrom(start, step) == [i \in 1..10 |-> DigitChars[((start + step * (i - 1)) % 10) + 1]]

\* IndianPhoneValidator._is_invalid_pattern
Phone_is_invalid_pattern(phone) ==
    \/ DistinctChars(phone) = 1
    \/ \E start \in 0..9 : phone = SequentialFrom(start, 1)
    \/ \E start \in 0..9 : phone = SequentialFrom(start, -1)
    \/ (Len(phone) = 10 /\ phone = Repeat(Take(phone, 2), 5))

validate_indian_phone(phone) ==
    IF Len(phone) = 0 THEN FALSE
    ELSE LET clean == Phone_clean_phone(phone)
         IN  IF ~(Len(clean) = 10 /\ IsDigitStr(clean)) THEN FALSE
             ELSE IF clean[1] \notin {"6", "7", "8", "9"} THEN FALSE
             ELSE IF Phone_is_invalid_pattern(clean) THEN FALSE
             ELSE TRUE

\* index (1-based) of the first occurrence of character c in s, 0 if none
FirstIndex(s, c) == IF \E i \in DOMAIN s : s[i] = c
                    THEN CHOOSE i \in DOMAIN s : s[i] = c /\ \A j \in 1..(i - 1) : s[j] # c
                    ELSE 0

\* ^[a-zA-Z0-9._%+-]+@[a-zA-Z0-9.-]+\.[a-zA-Z]{2,}$ on a string with exactly one @
Email_pattern_match(email) ==
    LET at == FirstIndex(email, "@")
        local == Take(email, at - 1)
        domain == From(email, at)
    IN  /\ Len(local) > 0
        /\ \A i \in DOMAIN local :
              IsAlnumChar(local[i]) \/ local[i] \in {".", "_", "%", "+", "-"}
        /\ \E k \in DOMAIN domain :
              /\ domain[k] = "."
              /\ k > 1
              /\ \A i \in 1..(k - 1) : IsAlnumChar(domain[i]) \/ domain[i] \in {".", "-"}
              /\ Len(domain) - k >= 2
              /\ \A i \in (k + 1)..Len(domain) : IsAlphaChar(domain[i])

\* EmailValidator._is_invalid_pattern
Email_is_invalid_pattern(email) ==
    LET at == FirstIndex(email, "@")
        local == Take(email, at - 1)
        domain == From(email, at)
    IN  \/ Contains(email, <<".",".">>)
        \/ StartsWith(local, <<".">>) \/ EndsWith(local, <<".">>)
        \/ StartsWith(domain, <<".">>) \/ EndsWith(domain, <<".">>)
        \/ StartsWith(domain, <<"-">>)

EMAIL_MAX_LENGTH == 254

validate_email(email0) ==
    IF Len(email0) = 0 THEN FALSE
    ELSE LET email == Lower(Strip(email0))
             at == FirstIndex(email, "@")
             local == Take(email, at - 1)
             domain == From(email, at)
         IN  IF Len(email) > EMAIL_MAX_LENGTH THEN FALSE
             ELSE IF CountChar(email, "@") # 1 THEN FALSE
             ELSE IF ~Email_pattern_match(email) THEN FALSE
             ELSE IF Len(local) = 0 \/ Len(local) > 64 THEN FALSE
             ELSE IF Len(domain) < 3 \/ Len(domain) > 253 THEN FALSE
             ELSE IF ~Contains(domain, <<".">>) THEN FALSE
             ELSE IF Email_is_invalid_pattern(email) THEN FALSE
             ELSE TRUE

\* DIPLOMATIC_TYPES | PERSONAL_TYPES of IndianPassportValidator
PASSPORT_TYPES == {"J", "Z"} \cup Range(<<"A","B","C","D","E","F","G","H","I","K","L","M","N","O","P","Q","R","S","T","U","V","W","X">>)

validate_indian_passport(passport) ==
    IF Len(passport) = 0 THEN FALSE
    ELSE LET clean == RemoveChar(RemoveChar(Upper(passport), " "), "-")
         IN  \* ^[A-Z][0-9]{7}$
             IF ~(Len(clean) = 8 /\ IsUpperChar(clean[1]) /\ IsDigitStr(From(clean, 1)))
             THEN FALSE
             ELSE IF clean[1] \notin PASSPORT_TYPES THEN FALSE
             ELSE TRUE

validate_upi(upi0) ==
    IF Len(upi0) = 0 THEN FALSE
    ELSE LET upi == Lower(Strip(upi0))
             at == FirstIndex(upi, "@")
             user == Take(upi, at - 1)
             provider == From(upi, at)
         IN  IF CountChar(upi, "@") # 1 THEN FALSE
             \* ^[a-zA-Z0-9._-]+@[a-zA-Z0-9]+$
             ELSE IF ~(/\ Len(user) > 0
                       /\ \A i \in DOMAIN user :
                             IsAlnumChar(user[i]) \/ user[i] \in {".", "_", "-"}
                       /\ Len(provider) > 0
                       /\ \A i \in DOMAIN provider : IsAlnumChar(provider[i]))
                 THEN FALSE
             ELSE IF Len(user) = 0 \/ Len(user) > 100 THEN FALSE
             ELSE IF Len(provider) < 2 \/ Len(provider) > 50 THEN FALSE
             ELSE TRUE

validate_ifsc(ifsc) ==
    IF Len(ifsc) = 0 THEN FALSE
    ELSE LET clean == RemoveChar(RemoveChar(Upper(ifsc), " "), "-")
         IN  IF Len(clean) # 11 THEN FALSE
             \* ^[A-Z]{4}0[A-Z0-9]{6}$
             ELSE IF ~(/\ \A i \in 1..4 : IsUpperChar(clean[i])
                       /\ clean[5] = "0"
                       /\ \A i \in 6..11 : IsUpperChar(clean[i]) \/ IsDigitChar(clean[i]))
                 THEN FALSE
             ELSE IF clean[5] # "0" THEN FALSE
             ELSE TRUE

BANK_MIN_LENGTH == 9
BANK_MAX_LENGTH == 18

\* BankAccountValidator._is_invalid_pattern
Bank_is_invalid_pattern(account) ==
    \/ DistinctChars(account) = 1
    \/ account = Repeat(<<"0">>, Len(account))

validate_bank_account(account) ==
    IF Len(account) = 0 THEN FALSE
    ELSE LET clean == RemoveChar(RemoveChar(account, " "), "-")
         IN  IF ~IsDigitStr(clean) THEN FALSE
             ELSE IF Len(clean) < BANK_MIN_LENGTH \/ Len(clean) > BANK_MAX_LENGTH THEN FALSE
             ELSE IF Bank_is_invalid_pattern(clean) THEN FALSE
             ELSE TRUE

validate_voter_id(voter_id) ==
    IF Len(voter_id) = 0 THEN FALSE
    ELSE LET clean == RemoveChar(RemoveChar(RemoveChar(Upper(voter_id), " "), "-"), "/")
         IN  IF Len(clean) # 10 THEN FALSE
             \* ^[A-Z]{3}[0-9]{7}$
             ELSE IF ~((\A i \in 1..3 : IsUpperChar(clean[i])) /\ IsDigitStr(From(clean, 3)))
                 THEN FALSE
             ELSE TRUE

\* ^[A-Z]{2}[0-9]{13}$
DL_pattern_common(s) ==
    Len(s) = 15 /\ IsUpperChar(s[1]) /\ IsUpperChar(s[2]) /\ IsDigitStr(From(s, 2))

\* ^[A-Z]{2}[-\s]?[0-9]{13}$
DL_pattern_alt(s) ==
    \/ DL_pattern_common(s)
    \/ (Len(s) = 16 /\ IsUpperChar(s[1]) /\ IsUpperChar(s[2]) /\ s[3] \in {"-", " "}
        /\ IsDigitStr(From(s, 3)))

validate_driving_license(dl) ==
    IF Len(dl) = 0 THEN FALSE
    ELSE LET up == Strip(Upper(dl))
             clean == IF DL_pattern_alt(up) THEN RemoveChar(RemoveChar(up, "-"), " ") ELSE up
         IN  IF Len(clean) # 15 THEN FALSE
             ELSE IF ~DL_pattern_common(clean) THEN FALSE
             ELSE TRUE

---------------------------------------------------------------------------
(* sdk/validators/dummy_detector.py                                         *)

\* a detector whose entropy check flags up to 4 distinct characters and which
\* makes no other check, against which C19 is checked
C19_flag_up_to_4_distinct(text) == Len(text) >= 10 /\ DistinctChars(text) <= 4

is_dummy_data(text) ==
    IF Len(text) < 3 THEN FALSE
    ELSE IF DistinctChars(text) = 1 THEN TRUE
    ELSE
    LET \* [int(d) for d in text if d.isdigit()]
        ds == OnlyDigits(text)
        digits == [i \in DOMAIN ds |-> DigitVal(ds[i])]
        is_ascending ==
            \A i \in 1..(Len(digits) - 1) : digits[i + 1] = (digits[i] + 1) % 10
        is_descending ==
            \A i \in 1..(Len(digits) - 1) : digits[i + 1] = (digits[i] - 1 + 10) % 10
        half == Len(text) \div 2
        triplet == Take(text, 3)
        unique_digits == DistinctChars(text)
    IN  IF Len(digits) >= 4 /\ is_ascending THEN TRUE
        ELSE IF Len(digits) >= 4 /\ is_descending THEN TRUE
        ELSE IF Len(text) >= 6 /\ Take(text, half) = Slice(text, half, 2 * half) THEN TRUE
        ELSE IF Len(text) >= 9
                /\ text = Repeat(triplet, Len(text) \div 3) \o Take(triplet, Len(text) % 3)
            THEN TRUE
        ELSE IF Len(text) >= 10 /\ unique_digits <= 2 THEN TRUE
        ELSE IF Len(text) = 10 /\ unique_digits >= 4 THEN FALSE
        ELSE FALSE

---------------------------------------------------------------------------
(* sdk/validators/context_validator.py                                      *)

TEST_KEYWORDS == {
    <<"t","e","s","t">>, <<"t","e","s","t","i","n","g">>, <<"d","u","m","m","y">>, <<"s","a","m","p","l","e">>, <<"e","x","a","m","p","l","e">>, <<"f","a","k","e">>, <<"m","o","c","k">>,
    <<"d","e","m","o">>, <<"s","a","n","d","b","o","x">>, <<"d","e","v">>, <<"d","e","v","e","l","o","p","m","e","n","t">>, <<"s","t","a","g","i","n","g">>, <<"q","a">> }

PRODUCTION_KEYWORDS == {
    <<"p","r","o","d","u","c","t","i","o","n">>, <<"p","r","o","d">>, <<"l","i","v","e">>, <<"c","u","s","t","o","m","e","r">>, <<"c","l","i","e","n","t">>, <<"u","s","e","r">>,
    <<"e","m","p","l","o","y","e","e">>, <<"p","a","t","i","e","n","t">>, <<"m","e","m","b","e","r">>, <<"a","c","c","o","u","n","t">>, <<"r","e","a","l">> }

NEGATIVE_KEYWORDS == {
    <<"i","n","v","a","l","i","d">>, <<"i","n","c","o","r","r","e","c","t">>, <<"w","r","o","n","g">>, <<"e","r","r","o","r">>, <<"f","a","i","l","e","d">>, <<"r","e","j","e","c","t","e","d">> }

\* TEST_DATA_PATTERNS, compiled with re.IGNORECASE and applied with match() to the
\* cleaned value; the table is keyed by the pii_type exactly as passed
TestPatternMatches(pii_type, cleaned) ==
    LET v == Lower(cleaned) IN
    CASE pii_type = <<"I","N","_","P","H","O","N","E">> ->
            v \in { Repeat(<<"9">>, 10), Repeat(<<"0">>, 10), Repeat(<<"1">>, 10),
                    <<"1","2","3","4","5","6","7","8","9","0">>, <<"0","9","8","7","6","5","4","3","2","1">> }
      [] pii_type = <<"E","M","A","I","L","_","A","D","D","R","E","S","S">> ->
            \/ v \in { <<"t","e","s","t","@","t","e","s","t",".","c","o","m">>, <<"t","e","s","t","@","e","x","a","m","p","l","e",".","c","o","m">>, <<"d","u","m","m","y","@","d","u","m","m","y",".","c","o","m">>,
                       <<"s","a","m","p","l","e","@","s","a","m","p","l","e",".","c","o","m">>, <<"f","o","o","@","b","a","r",".","c","o","m">> }
            \/ StartsWith(v, <<"n","o","r","e","p","l","y","@">>)
            \/ StartsWith(v, <<"n","o","-","r","e","p","l","y","@">>)
      [] pii_type = <<"I","N","_","A","A","D","H","A","A","R">> ->
            v \in { Repeat(<<"1">>, 12), Repeat(<<"0">>, 12), Repeat(<<"9">>, 12),
                    <<"1","2","3","4","5","6","7","8","9","0","1","2">> }
      [] pii_type = <<"I","N","_","P","A","N">> ->
            \/ v \in { <<"a","a","a","a","a","0","0","0","0","a">>, <<"z","z","z","z","z","9","9","9","9","z">> }
            \/ (Len(v) = 10 /\ Take(v, 4) = <<"t","e","s","t">> /\ IsAlphaChar(v[5])
                /\ Slice(v, 5, 9) = <<"0","0","0","0">> /\ IsAlphaChar(v[10]))
      [] pii_type = <<"C","R","E","D","I","T","_","C","A","R","D">> ->
            v \in { Repeat(<<"1">>, 16), Repeat(<<"0">>, 16), <<"1","2","3","4","5","6","7","8","9","0","1","2","3","4","5","6">> }
      [] pii_type = <<"I","N","_","B","A","N","K","_","A","C","C","O","U","N","T">> ->
            \/ (Len(v) >= 10 /\ Range(v) = {"0"})
            \/ (Len(v) >= 10 /\ Range(v) = {"1"})
            \/ v = <<"1","2","3","4","5","6","7","8","9","0","1","2","3","4","5">>
      [] OTHER -> FALSE

\* ContextValidator.is_test_data, reading the validator's exclusion list
is_test_data(value, pii_type, excl) ==
    LET cleaned == RemoveChar(RemoveChar(Strip(value), " "), "-")
    IN  IF TestPatternMatches(pii_type, cleaned) THEN TRUE
        ELSE IF value \in excl \/ cleaned \in excl THEN TRUE
        ELSE FALSE

\* re.findall(r'\b\w+\b', s): the maximal runs of word characters, in order
WordStarts(s) ==
    { i \in DOMAIN s : IsWordChar(s[i]) /\ (i = 1 \/ ~IsWordChar(s[i - 1])) }

WordEnd(s, i) ==
    CHOOSE j \in i..Len(s) :
        /\ \A k \in i..j : IsWordChar(s[k])
        /\ (j = Len(s) \/ ~IsWordChar(s[j + 1]))

Words(s) ==
    LET starts == WordStarts(s)
        nth(k) == CHOOSE i \in starts : Cardinality({ j \in starts : j < i }) = k - 1
    IN  [k \in 1..Cardinality(starts) |-> SubSeq(s, nth(k), WordEnd(s, nth(k)))]

Max(a, b) == IF a >= b THEN a ELSE b
Min(a, b) == IF a <= b THEN a ELSE b

\* the default window_size of extract_context_keywords
KEYWORD_WINDOW == 100

extract_context_keywords(text, start, end) ==
    LET context_start == Max(0, start - KEYWORD_WINDOW)
        context_end == Min(Len(text), end + KEYWORD_WINDOW)
        context == Lower(Slice(text, context_start, context_end))
        all_keywords == TEST_KEYWORDS \cup PRODUCTION_KEYWORDS \cup NEGATIVE_KEYWORDS
    IN  SelectSeq(Words(context), LAMBDA w : w \in all_keywords)

\* Confidences are fixed-point numbers: ConfOne stands for 1.0.  A recognizer
\* score is given in hundredths, and each of the three keyword factors is a
\* whole number of hundredths, so every product below is exact.
ConfOne == 100 * 100 * 100 * 100
ScoreToConf(score) == score * 100 * 100 * 100

CountIn(keywords, set) == Len(SelectSeq(keywords, LAMBDA kw : kw \in set))

\* an adjustment that adds the three percentages up into one factor, against
\* which C24 is checked
C24_summed_adjustments(base_confidence, keywords) ==
    LET test_count == CountIn(keywords, TEST_KEYWORDS)
        prod_count == CountIn(keywords, PRODUCTION_KEYWORDS)
        negative_count == CountIn(keywords, NEGATIVE_KEYWORDS)
        confidence == base_confidence * 100 * 100
                        * (100 - test_count * 15 + prod_count * 5 - negative_count * 25)
    IN  Max(0, Min(ConfOne, confidence))

\* base_confidence is a score in hundredths and the three factors,
\* (1.0 - test_count * 0.15), (1.0 + prod_count * 0.05) and
\* (1.0 - negative_count * 0.25), are in hundredths; the result is on the
\* ConfOne scale
adjust_confidence_by_context(base_confidence, keywords) ==
    LET test_count == CountIn(keywords, TEST_KEYWORDS)
        prod_count == CountIn(keywords, PRODUCTION_KEYWORDS)
        negative_count == CountIn(keywords, NEGATIVE_KEYWORDS)
        confidence == base_confidence * (100 - test_count * 15)
                        * (100 + prod_count * 5) * (100 - negative_count * 25)
    IN  Max(0, Min(ConfOne, confidence))

\* ContextValidator.validate_with_context: (is_valid, adjusted_confidence, reason);
\* the reason is kept as its kind and the text interpolated into it
validate_with_context(value, pii_type, text, start, end, base_confidence, excl) ==
    IF is_test_data(value, pii_type, excl)
    THEN [is_valid |-> FALSE, adjusted_confidence |-> 0,
          reason |-> <<"R","e","j","e","c","t","e","d",":"," ","T","e","s","t"," ","d","a","t","a"," ","p","a","t","t","e","r","n"," ","d","e","t","e","c","t","e","d"," ","(">> \o value \o <<")">>,
          keywords |-> <<>>]
    ELSE LET keywords == extract_context_keywords(text, start, end)
             adjusted_confidence == adjust_confidence_by_context(base_confidence, keywords)
         IN  \* adjusted_confidence < 0.5
             IF adjusted_confidence < ConfOne \div 2
             THEN [is_valid |-> FALSE, adjusted_confidence |-> adjusted_confidence,
                   reason |-> <<"R","e","j","e","c","t","e","d",":"," ","L","o","w"," ","c","o","n","f","i","d","e","n","c","e"," ","a","f","t","e","r"," ","c","o","n","t","e","x","t"," ","a","n","a","l","y","s","i","s">>,
                   keywords |-> keywords]
             ELSE [is_valid |-> TRUE, adjusted_confidence |-> adjusted_confidence,
                   reason |-> <<"V","a","l","i","d">>, keywords |-> keywords]

---------------------------------------------------------------------------
(* sdk/pii_scope.py, sdk/schema.py, sdk/validation_pipeline.py              *)

LOCKED_PII_TYPES == {
    <<"I","N","_","P","A","N">>, <<"I","N","_","P","A","S","S","P","O","R","T">>, <<"I","N","_","A","A","D","H","A","A","R">>, <<"C","R","E","D","I","T","_","C","A","R","D">>, <<"I","N","_","U","P","I">>,
    <<"I","N","_","I","F","S","C">>, <<"I","N","_","B","A","N","K","_","A","C","C","O","U","N","T">>, <<"I","N","_","P","H","O","N","E">>, <<"E","M","A","I","L","_","A","D","D","R","E","S","S">>,
    <<"I","N","_","V","O","T","E","R","_","I","D">>, <<"I","N","_","D","R","I","V","I","N","G","_","L","I","C","E","N","S","E">> }

\* a scope gate that lets every type through, against which C1 is checked
C1_gate_open(pii_type) == TRUE

is_allowed_pii(pii_type) == Strip(Upper(pii_type)) \in LOCKED_PII_TYPES

\* VALIDATOR_MAP, each validator function standing by its __name__
VALIDATOR_MAP(key) ==
    CASE key = <<"C","R","E","D","I","T","_","C","A","R","D">> -> "validate_credit_card"
      [] key = <<"I","N","_","A","A","D","H","A","A","R">> -> "validate_aadhaar"
      [] key = <<"I","N","_","P","A","N">> -> "validate_pan"
      [] key = <<"I","N","_","P","H","O","N","E">> -> "validate_indian_phone"
      [] key = <<"E","M","A","I","L","_","A","D","D","R","E","S","S">> -> "validate_email"
      [] key = <<"I","N","_","P","A","S","S","P","O","R","T">> -> "validate_indian_passport"
      [] key = <<"I","N","_","U","P","I">> -> "validate_upi"
      [] key = <<"I","N","_","I","F","S","C">> -> "validate_ifsc"
      [] key = <<"I","N","_","B","A","N","K","_","A","C","C","O","U","N","T">> -> "validate_bank_account"
      [] key = <<"I","N","_","V","O","T","E","R","_","I","D">> -> "validate_voter_id"
      [] key = <<"I","N","_","D","R","I","V","I","N","G","_","L","I","C","E","N","S","E">> -> "validate_driving_license"
      [] OTHER -> "None"

\* VALIDATOR_MAP.get(pii_type.upper())
get_validator(pii_type) == VALIDATOR_MAP(Upper(pii_type))

\* validator(matched_value) for the validator of that name
CallValidator(validator, value) ==
    CASE validator = "validate_credit_card" -> validate_credit_card(value)
      [] validator = "validate_aadhaar" -> validate_aadhaar(value)
      [] validator = "validate_pan" -> validate_pan(value)
      [] validator = "validate_indian_phone" -> validate_indian_phone(value)
      [] validator = "validate_email" -> validate_email(value)
      [] validator = "validate_indian_passport" -> validate_indian_passport(value)
      [] validator = "validate_upi" -> validate_upi(value)
      [] validator = "validate_ifsc" -> validate_ifsc(value)
      [] validator = "validate_bank_account" -> validate_bank_account(value)
      [] validator = "validate_voter_id" -> validate_voter_id(value)
      [] validator = "validate_driving_license" -> validate_driving_license(value)

\* the value a function returns when it returns None
None == [none |-> TRUE]

\* the half-width of the excerpt window of create_from_analysis
EXCERPT_WINDOW == 50

common_keywords == << <<"a","a","d","h","a","a","r">>, <<"p","a","n">>, <<"c","a","r","d">>, <<"n","u","m","b","e","r">>, <<"i","d">>, <<"u","i","d">>,
                      <<"c","u","s","t","o","m","e","r">> >>

\* hashlib.sha256(matched_value.encode()).hexdigest(): an opaque digest, equal
\* for equal values and different for different ones
sha256(value) == [sha256_of |-> value]

\* VerifiedFinding.create_from_analysis (detected_at, the clock reading, is left out)
create_from_analysis(pr, text, source_info, pattern_name, validators) ==
    LET matched_value == Slice(text, pr.start, pr.end)
        context_start == Max(0, pr.start - EXCERPT_WINDOW)
        context_end == Min(Len(text), pr.end + EXCERPT_WINDOW)
        context_excerpt == Slice(text, context_start, context_end)
        lower_context == Lower(context_excerpt)
    IN  [ pii_type |-> pr.entity_type,
          value_hash |-> sha256(matched_value),
          source |-> source_info,
          validators_passed |-> validators,
          validation_method |-> IF Len(validators) > 0 THEN "mathematical" ELSE "ml",
          ml_confidence |-> pr.score,
          ml_entity_type |-> pr.entity_type,
          context_excerpt |-> context_excerpt,
          context_keywords |-> SelectSeq(common_keywords,
                                         LAMBDA kw : Contains(lower_context, kw)),
          pattern_name |-> pattern_name,
          scanner_version |-> "2.0-sdk" ]

\* VerifiedFinding.to_dict: the fields it serializes
to_dict(finding) ==
    [k \in { "pii_type", "value_hash", "source", "validators_passed",
             "validation_method", "ml_confidence", "ml_entity_type",
             "context_excerpt", "context_keywords", "pattern_name",
             "scanner_version" } |-> finding[k]]

\* the sign shown in the "Verified" message
confidence_indicator(adjusted, base) ==
    IF adjusted > ScoreToConf(base) THEN "up"
    ELSE IF adjusted < ScoreToConf(base) THEN "down" ELSE "same"

\* validate_and_create_finding as a function of the candidate and of the state
\* it reads: the finding returned (or None), the messages printed, and the
\* number of validator and context-validator invocations made
validate_and_create_finding(pr, text, source_info, pattern_name, excl) ==
    LET pii_type == pr.entity_type
        matched_value == Slice(text, pr.start, pr.end)
        validator == get_validator(pii_type)
        is_valid == CallValidator(validator, matched_value)
        validators_passed == IF validator # "None" THEN <<validator>> ELSE <<>>
        no_validator_msg ==
            IF validator # "None" THEN <<>>
            ELSE << [text |-> <<"W","a","r","n","i","n","g",":"," ","N","o"," ","v","a","l","i","d","a","t","o","r"," ","f","o","r"," ">> \o pii_type] >>
        ctx == validate_with_context(matched_value, pii_type, text, pr.start, pr.end,
                                     pr.score, excl)
        created == create_from_analysis(pr, text, source_info, pattern_name,
                                        validators_passed)
    IN  IF ~is_allowed_pii(pii_type)
        THEN [ finding |-> None,
               out |-> << [text |-> <<"R","e","j","e","c","t","e","d"," ">> \o pii_type
                                    \o <<":"," ","N","o","t"," ","i","n"," ","l","o","c","k","e","d"," ","s","c","o","p","e"," ","(","1","1"," ","I","n","d","i","a"," ","P","I","I","s"," ","o","n","l","y",")">>] >>,
               validator_calls |-> 0, context_calls |-> 0 ]
        ELSE IF validator # "None" /\ ~is_valid
        THEN [ finding |-> None,
               out |-> << [text |-> <<"R","e","j","e","c","t","e","d"," ">> \o pii_type \o <<":"," ","F","a","i","l","e","d"," ","v","a","l","i","d","a","t","i","o","n">>,
                           validator |-> validator] >>,
               validator_calls |-> 1, context_calls |-> 0 ]
        ELSE IF ~ctx.is_valid
        THEN [ finding |-> None,
               out |-> no_validator_msg \o << [text |-> ctx.reason,
                                               keywords |-> ctx.keywords] >>,
               validator_calls |-> IF validator # "None" THEN 1 ELSE 0,
               context_calls |-> 1 ]
        ELSE [ finding |-> created @@ [confidence_score |-> ctx.adjusted_confidence],
               out |-> no_validator_msg \o
                       << [text |-> <<"V","e","r","i","f","i","e","d"," ">> \o pii_type \o <<":"," ">>
                                    \o Take(matched_value, 10) \o <<"*","*","*">>,
                           confidence |-> ctx.adjusted_confidence,
                           indicator |-> confidence_indicator(ctx.adjusted_confidence,
                                                              pr.score),
                           validators |-> Len(validators_passed)] >>,
               validator_calls |-> IF validator # "None" THEN 1 ELSE 0,
               context_calls |-> 1 ]


---------------------------------------------------------------------------
(* Each specification below runs one part of the program; the variables of  *)
(* the other parts stay as these predicates leave them.                     *)

vars == <<valVars, maskVars, concVars, polVars, fnVars, scanVars, engVars>>

\* the variables of the masking adapters, at rest: no file and no table
MaskIdle ==
    /\ adapter = "filesystem"
    /\ backup_enabled = TRUE
    /\ dry_run = FALSE
    /\ backup_dir_writable = TRUE
    /\ db_up = TRUE
    /\ fs_files = << >>
    /\ fs_backups = << >>
    /\ pg_db = << >>
    /\ pg_aborted = FALSE
    /\ clock = 0
    /\ last_op = None
    /\ last_mask = None
    /\ n_ops = 0

\* the variables of the concurrent callers, at rest
ConcIdle ==
    /\ pc = << >>
    /\ read_content = << >>
    /\ conc_call = << >>

\* the variables of the validation pipeline, at rest
ValIdle ==
    /\ presidio_result = None
    /\ verified = None
    /\ printed = << >>
    /\ validator_calls = 0
    /\ context_calls = 0
    /\ exclusion_list = {}
    /\ last_call = "none"
    /\ n_calls = 0

\* no policy loaded
PolIdle ==
    /\ policy = None
    /\ policy_checked = FALSE
    /\ pol_op = None

\* no validator called on its own
FnIdle ==
    /\ fn_input = << >>
    /\ fn_output = None

\* no scan made
ScanIdle ==
    /\ scan_content = << >>
    /\ scan_patterns = << >>
    /\ scan_scored = << >>
    /\ scan_findings = << >>

\* no thread in get_engine
EngIdle ==
    /\ engine_instance = None
    /\ engines_initialized = 0
    /\ engine_pc = << >>
    /\ engine_built = << >>
    /\ engine_returned = << >>
---------------------------------------------------------------------------
(* The validation pipeline as a state machine: a candidate is drawn, and    *)
(* the pipeline's public functions are called on it in any order.           *)

\* how many pipeline calls a behaviour makes
MaxCalls == 2

\* values callers put on the exclusion list
ExclusionInputs == { <<"9","1","2","3","4","5","6","7","8","9">>, <<"j","o","h","n","@","c","o","m","p","a","n","y",".","c","o","m">> }

\* the candidates the recognizer hands over: a type, a matched value, the
\* text around the match and a score in hundredths
Candidates ==
    LET TypeInputs == LOCKED_PII_TYPES \cup
            { <<"U","S","_","S","S","N">>, <<"P","E","R","S","O","N">>, <<"i","n","_","p","h","o","n","e">>, <<"I","N","_","P","A","N"," ">>, <<" ","I","N","_","B","A","N","K","_","A","C","C","O","U","N","T">> }
        ValueInputs == {
            <<"9","9","9","9","1","1","1","1","2","2","2","6">>, <<"9","9","9","9"," ","1","1","1","1"," ","2","2","2","6">>, <<"9","9","9","9","1","1","1","1","2","2","2","2">>, <<"2","4","2","4","2","4","2","4","2","4","2","4">>,
            <<"1","2","3","4","5","6","7","8","9","0","1","2">>, <<"4","5","3","2","0","1","5","1","1","2","8","3","0","3","6","6">>, <<"4","5","3","2","0","1","5","1","1","2","8","3","0","3","6","7">>,
            <<"A","A","A","P","C","1","2","3","4","O">>, <<"A","A","A","P","C","1","2","3","4","D">>, <<"9","1","2","3","4","5","6","7","8","9">>, <<"9","8","7","6","5","9","8","7","6","5">>,
            <<"j","o","h","n","@","c","o","m","p","a","n","y",".","c","o","m">>, <<"t","e","s","t","@","t","e","s","t",".","c","o","m">>, <<"1","2","1","2","1","2","1","2","1","2","1","2">>,
            <<"A","1","2","3","4","5","6","7">>, <<"u","s","e","r","@","p","a","y","t","m">>, <<"S","B","I","N","0","0","0","1","2","3","4">>, <<"A","B","C","1","2","3","4","5","6","7">>,
            <<"M","H","0","1","2","0","1","5","0","0","0","1","2","3","4">> }
        Contexts == {
            [pre |-> <<>>, suf |-> <<>>],
            [pre |-> <<"c","u","s","t","o","m","e","r"," ","i","d"," ">>, suf |-> <<" ","o","n"," ","f","i","l","e">>],
            [pre |-> <<"t","e","s","t"," ">>, suf |-> <<" ","s","a","m","p","l","e">>],
            [pre |-> <<"t","e","s","t"," ","d","u","m","m","y"," ","f","a","k","e"," ">>, suf |-> <<" ","i","n","v","a","l","i","d">>],
            [pre |-> <<"t","e","s","t"," ">> \o Repeat(<<".">>, KEYWORD_WINDOW), suf |-> <<" ","o","k">>] }
        ScoreInputs == {45, 60, 100}
    IN  { [ entity_type |-> t, text |-> c.pre \o v \o c.suf,
            start |-> Len(c.pre), end |-> Len(c.pre) + Len(v), score |-> score ] :
            t \in TypeInputs, v \in ValueInputs, c \in Contexts, score \in ScoreInputs }

\* the caller's source_info and pattern_name
SOURCE_INFO == [path |-> "/data/users.csv", data_source |-> "filesystem", host |-> "localhost"]
PATTERN_NAME == "pattern"

matched(pr) == Slice(pr.text, pr.start, pr.end)

ValInit ==
    /\ presidio_result \in Candidates
    /\ verified = None
    /\ printed = <<>>
    /\ validator_calls = 0
    /\ context_calls = 0
    /\ exclusion_list = {}
    /\ last_call = "none"
    /\ n_calls = 0
    /\ MaskIdle /\ ConcIdle /\ PolIdle /\ FnIdle /\ ScanIdle /\ EngIdle

\* validate_and_create_finding(presidio_result, text, source_info, pattern_name)
ValidateAndCreateFinding ==
    /\ n_calls < MaxCalls
    /\ \E r \in { validate_and_create_finding(presidio_result, presidio_result.text,
                                               SOURCE_INFO, PATTERN_NAME, exclusion_list) } :
          /\ verified' = r.finding
          /\ printed' = r.out
          /\ validator_calls' = r.validator_calls
          /\ context_calls' = r.context_calls
    /\ last_call' = "validate_and_create_finding"
    /\ n_calls' = n_calls + 1
    /\ UNCHANGED <<presidio_result, exclusion_list>>
    /\ UNCHANGED <<maskVars, concVars, polVars, fnVars, scanVars, engVars>>

\* set_exclusion_list(exclusion_values)
SetExclusionList(exclusion_values) ==
    /\ n_calls < MaxCalls
    /\ exclusion_list' = exclusion_list \cup exclusion_values
    /\ printed' = << [text |-> <<"A","d","d","e","d"," ","v","a","l","u","e","s"," ","t","o"," ","e","x","c","l","u","s","i","o","n"," ","l","i","s","t">>,
                      count |-> Cardinality(exclusion_values)] >>
    /\ last_call' = "set_exclusion_list"
    /\ n_calls' = n_calls + 1
    /\ UNCHANGED <<presidio_result, verified, validator_calls, context_calls>>
    /\ UNCHANGED <<maskVars, concVars, polVars, fnVars, scanVars, engVars>>


\* hashlib.sha256(combined.encode('utf-8')).hexdigest()[:16].upper(), tabulated
\* from hashlib for the strings the strategies below are applied to
sha256_hexdigest_16_upper(combined) ==
    CASE combined = <<"d","e","f","a","u","l","t","_","s","e","c","r","e","t","_","k","e","y","_","c","h","a","n","g","e","_","i","n","_","p","r","o","d","u","c","t","i","o","n",":","9","1","2","3","4","5","6","7","8","9",":","I","N","_","P","H","O","N","E">> -> <<"D","C","E","7","B","E","7","A","C","7","A","C","3","4","D","3">>
      [] combined = <<"d","e","f","a","u","l","t","_","s","e","c","r","e","t","_","k","e","y","_","c","h","a","n","g","e","_","i","n","_","p","r","o","d","u","c","t","i","o","n",":","c","@","d",".","i","n",":","E","M","A","I","L","_","A","D","D","R","E","S","S">> -> <<"7","F","D","4","E","3","0","4","8","3","D","6","0","5","B","1">>
      [] combined = <<"d","e","f","a","u","l","t","_","f","p","e","_","k","e","y","_","c","h","a","n","g","e","_","i","n","_","p","r","o","d","u","c","t","i","o","n",":",":","I","N","_","P","H","O","N","E">> -> <<"5","0","4","B","F","8","A","A","4","1","D","D","0","A","0","F">>
      [] combined = <<"d","e","f","a","u","l","t","_","f","p","e","_","k","e","y","_","c","h","a","n","g","e","_","i","n","_","p","r","o","d","u","c","t","i","o","n",":","+","9","1","9","1","2","3","4","5","6","7","8","9",":","I","N","_","P","H","O","N","E">> -> <<"B","B","E","0","1","5","5","7","5","2","9","9","8","8","A","9">>
      [] combined = <<"d","e","f","a","u","l","t","_","s","e","c","r","e","t","_","k","e","y","_","c","h","a","n","g","e","_","i","n","_","p","r","o","d","u","c","t","i","o","n",":","9","9","8","8","7","7","6","6","5","5",":","I","N","_","P","H","O","N","E">> -> <<"0","F","2","2","E","A","8","1","3","D","2","6","F","7","F","E">>
      [] combined = <<"d","e","f","a","u","l","t","_","s","e","c","r","e","t","_","k","e","y","_","c","h","a","n","g","e","_","i","n","_","p","r","o","d","u","c","t","i","o","n",":","9","1","2","3","4","5","6","7","8","9",":","I","N","_","P","A","N">> -> <<"9","9","7","A","2","6","4","E","A","F","B","7","5","8","9","6">>
      [] combined = <<"d","e","f","a","u","l","t","_","s","e","c","r","e","t","_","k","e","y","_","c","h","a","n","g","e","_","i","n","_","p","r","o","d","u","c","t","i","o","n",":","9","1","2","3","4","5","6","7","8","9",":","E","M","A","I","L","_","A","D","D","R","E","S","S">> -> <<"4","1","6","A","0","D","C","C","8","F","5","3","D","F","4","6">>
      [] combined = <<"k","1",":","9","1","2","3","4","5","6","7","8","9",":","I","N","_","P","H","O","N","E">> -> <<"4","4","0","2","2","5","4","8","8","9","0","A","6","2","8","7">>
      [] combined = <<"k","1",":","9","1","2","3","4","5","6","7","8","9",":","E","M","A","I","L","_","A","D","D","R","E","S","S">> -> <<"1","C","5","D","6","C","B","8","2","9","3","1","A","1","A","5">>
      [] combined = <<"k","1",":","9","1","2","3","4","5","6","7","8","9",":","I","N","_","P","A","N">> -> <<"2","D","3","4","A","6","1","4","C","6","A","3","C","F","C","E">>
      [] combined = <<"d","e","f","a","u","l","t","_","f","p","e","_","k","e","y","_","c","h","a","n","g","e","_","i","n","_","p","r","o","d","u","c","t","i","o","n",":","M","H","-","0","1"," ","2","0","1","5","/","0","0","0","1","2","3","4",":","I","N","_","P","H","O","N","E">> -> <<"F","0","D","8","5","A","6","0","D","1","7","A","1","4","3","B">>
---------------------------------------------------------------------------
(* sdk/masking/strategies.py and the string functions the adapters use       *)

\* s.split(c) for a single character c
Split(s, c) ==
    LET pos == { i \in DOMAIN s : s[i] = c }
        n == Cardinality(pos)
        nth(k) == IF k = 0 THEN 0
                  ELSE IF k = n + 1 THEN Len(s) + 1
                  ELSE CHOOSE i \in pos : Cardinality({ j \in pos : j < i }) = k - 1
    IN  [k \in 1..(n + 1) |-> SubSeq(s, nth(k - 1) + 1, nth(k) - 1)]

\* sep.join(parts)
RECURSIVE Join(_, _)
Join(parts, sep) ==
    IF Len(parts) = 0 THEN <<>>
    ELSE IF Len(parts) = 1 THEN parts[1]
    ELSE parts[1] \o sep \o Join(Tail(parts), sep)

\* int(s) for a string of digits
RECURSIVE ParseInt(_)
ParseInt(s) ==
    IF Len(s) = 0 THEN 0
    ELSE ParseInt(SubSeq(s, 1, Len(s) - 1)) * 10 + DigitVal(s[Len(s)])

\* None where a string is expected, and None where a position is: values no
\* string and no position equals
NoneStr == <<"None">>
NonePos == -1

\* what a call yields that raises instead of returning a string
Raises == <<"raise">>

REDACTED == <<"[","R","E","D","A","C","T","E","D","]">>

\* PartialMaskStrategy.mask
PartialMask_mask(value, pii_type) ==
    IF value = NoneStr \/ pii_type = NoneStr THEN Raises
    ELSE
    LET cleaned == RemoveChar(RemoveChar(RemoveChar(value, " "), "-"), "_")
        length == Len(cleaned)
        type == Upper(pii_type)
        parts == Split(value, "@")
        at_form == IF Contains(value, <<"@">>)
                   THEN IF Len(parts) = 2 /\ Len(parts[1]) > 2
                        THEN Take(parts[1], 2) \o <<"*","*","*","*","@">> \o parts[2]
                        ELSE <<"*","*","*","*","@">> \o parts[Len(parts)]
                   ELSE REDACTED
    IN  IF length <= 4 THEN REDACTED
        ELSE IF Contains(type, <<"A","A","D","H","A","A","R">>)
        THEN IF length >= 12 THEN <<"X","X","X","X","-","X","X","X","X","-">> \o LastK(cleaned, 4)
             ELSE <<"X","X","X","X","-">> \o LastK(cleaned, 4)
        ELSE IF Contains(type, <<"P","A","N">>)
        THEN IF length >= 10 THEN Take(cleaned, 3) \o <<"*","*","*","*">> \o LastK(cleaned, 4)
             ELSE Take(cleaned, 2) \o <<"*","*","*","*">> \o LastK(cleaned, 2)
        ELSE IF Contains(type, <<"P","H","O","N","E">>)
        THEN IF length >= 10 THEN <<"*","*","*","*","*","*">> \o LastK(cleaned, 4)
             ELSE <<"*","*","*","*">> \o LastK(cleaned, 4)
        ELSE IF Contains(type, <<"E","M","A","I","L">>) THEN at_form
        ELSE IF Contains(type, <<"C","A","R","D">>) \/ Contains(type, <<"C","R","E","D","I","T">>)
        THEN IF length >= 16 THEN <<"*","*","*","*","-","*","*","*","*","-","*","*","*","*","-">> \o LastK(cleaned, 4)
             ELSE <<"*","*","*","*","-">> \o LastK(cleaned, 4)
        ELSE IF Contains(type, <<"P","A","S","S","P","O","R","T">>)
        THEN IF length >= 7 THEN Take(cleaned, 1) \o <<"*","*","*","*">> \o LastK(cleaned, 3)
             ELSE Take(cleaned, 1) \o <<"*","*","*","*">>
        ELSE IF Contains(type, <<"V","O","T","E","R">>) \/ Contains(type, <<"L","I","C","E","N","S","E">>)
        THEN IF length >= 8 THEN Take(cleaned, 3) \o <<"*","*","*","*">> \o LastK(cleaned, 3)
             ELSE Take(cleaned, 2) \o <<"*","*","*","*">> \o LastK(cleaned, 2)
        ELSE IF Contains(type, <<"B","A","N","K">>) \/ Contains(type, <<"A","C","C","O","U","N","T">>)
        THEN Repeat(<<"*">>, length - 4) \o LastK(cleaned, 4)
        ELSE IF Contains(type, <<"U","P","I">>) THEN at_form
        ELSE IF Contains(type, <<"I","F","S","C">>)
        THEN IF length >= 11 THEN Take(cleaned, 4) \o <<"*","*","*","*">> \o LastK(cleaned, 3)
             ELSE Take(cleaned, 4) \o <<"*","*","*","*">>
        ELSE IF length > 6
        THEN Take(cleaned, 2) \o Repeat(<<"*">>, length - 6) \o LastK(cleaned, 4)
        ELSE Take(cleaned, 1) \o Repeat(<<"*">>, length - 2) \o LastK(cleaned, 1)

\* ord(c) for the characters of the secret keys
Ord(c) ==
    IF IsDigitChar(c) THEN 48 + DigitVal(c)
    ELSE IF IsUpperChar(c) THEN 65 + IndexIn(UpperChars, c) - 1
    ELSE IF IsLowerChar(c) THEN 97 + IndexIn(LowerChars, c) - 1
    ELSE CASE c = "_" -> 95 [] c = "-" -> 45 [] c = " " -> 32

\* the keys TokenizeStrategy.__init__ and FPEStrategy.__init__ fall back to
DEFAULT_TOKENIZE_KEY == <<"d","e","f","a","u","l","t","_","s","e","c","r","e","t","_","k","e","y","_","c","h","a","n","g","e","_","i","n","_","p","r","o","d","u","c","t","i","o","n">>
DEFAULT_FPE_KEY == <<"d","e","f","a","u","l","t","_","f","p","e","_","k","e","y","_","c","h","a","n","g","e","_","i","n","_","p","r","o","d","u","c","t","i","o","n">>

\* TokenizeStrategy(secret_key).mask(value, pii_type); str(None) is "None"
Tokenize_mask(secret_key, value, pii_type) ==
    LET key == IF secret_key = NoneStr \/ Len(secret_key) = 0
               THEN DEFAULT_TOKENIZE_KEY ELSE secret_key
        text == IF value = NoneStr THEN <<"N","o","n","e">> ELSE value
        combined == key \o <<":">> \o text \o <<":">> \o pii_type
    IN  <<"T","O","K","E","N","_">> \o sha256_hexdigest_16_upper(combined)

\* FPEStrategy._fpe_numeric, with the key __init__ stored
FPE_fpe_numeric(secret_key, value) ==
    [ i \in 1..Len(value) |->
        LET char == value[i]
            key_char == secret_key[((i - 1) % Len(secret_key)) + 1]
        IN  IF IsDigitChar(char)
            THEN DigitChars[((DigitVal(char) + Ord(key_char)) % 10) + 1]
            ELSE char ]

\* FPEStrategy._fpe_alphanumeric, with the key __init__ stored
FPE_fpe_alphanumeric(secret_key, value) ==
    [ i \in 1..Len(value) |->
        LET char == value[i]
            key_char == secret_key[((i - 1) % Len(secret_key)) + 1]
        IN  IF ~IsAlnumChar(char) THEN char
            ELSE IF IsDigitChar(char)
            THEN DigitChars[((DigitVal(char) + Ord(key_char)) % 10) + 1]
            ELSE IF IsUpperChar(char)
            THEN UpperChars[((IndexIn(UpperChars, char) - 1 + Ord(key_char)) % 26) + 1]
            ELSE LowerChars[((IndexIn(LowerChars, char) - 1 + Ord(key_char)) % 26) + 1] ]

\* FPEStrategy(secret_key).mask(value, pii_type); value.replace raises on None
FPE_mask(secret_key, value, pii_type) ==
    LET key == IF secret_key = NoneStr \/ Len(secret_key) = 0
               THEN DEFAULT_FPE_KEY ELSE secret_key
        is_numeric == IsDigitStr(RemoveChar(RemoveChar(value, " "), "-"))
        has_letters == \E i \in DOMAIN value : IsAlphaChar(value[i])
    IN  IF value = NoneStr THEN Raises
        ELSE IF is_numeric THEN FPE_fpe_numeric(key, value)
        ELSE IF has_letters THEN FPE_fpe_alphanumeric(key, value)
        ELSE Tokenize_mask(key, value, pii_type)

\* strategy.mask(value, pii_type) for the strategy get_masking_strategy
\* (strategy_name, secret_key) builds
strategy_mask(strategy_name, secret_key, value, pii_type) ==
    IF strategy_name = "REDACT" THEN REDACTED
    ELSE IF strategy_name = "PARTIAL" THEN PartialMask_mask(value, pii_type)
    ELSE IF strategy_name = "TOKENIZE" THEN Tokenize_mask(secret_key, value, pii_type)
    ELSE FPE_mask(secret_key, value, pii_type)

\* masking_strategy.mask(value, pii_type), for the strategy of each class
\* built without a key
mask(masking_strategy, value, pii_type) ==
    strategy_mask(masking_strategy, NoneStr, value, pii_type)

---------------------------------------------------------------------------
(* sdk/masking/policy.py                                                     *)
(*                                                                           *)
(* The dictionary a policy is loaded from is a record holding the keys       *)
(* present; a dict of the policy (pii_type_strategies) is a function from    *)
(* its keys.                                                                 *)

PolicyMode == [STRICT |-> <<"s","t","r","i","c","t">>, LENIENT |-> <<"l","e","n","i","e","n","t">>, DRY_RUN |-> <<"d","r","y","_","r","u","n">>]

\* MaskingPolicy.from_dict(data): the policy built, or the exception raised
\* by data["name"] (KeyError) or by PolicyMode(...) (ValueError)
from_dict(data) ==
    LET get(key, default) == IF key \in DOMAIN data THEN data[key] ELSE default
        mode == get("mode", <<"s","t","r","i","c","t">>)
    IN  IF "name" \notin DOMAIN data THEN [ret |-> None, raised |-> "KeyError"]
        ELSE IF mode \notin {PolicyMode.STRICT, PolicyMode.LENIENT, PolicyMode.DRY_RUN}
        THEN [ret |-> None, raised |-> "ValueError"]
        ELSE [ret |-> [ name |-> data["name"],
                        description |-> get("description", <<>>),
                        mode |-> mode,
                        pii_type_strategies |-> get("pii_type_strategies", <<>>),
                        default_strategy |-> get("default_strategy", <<"P","A","R","T","I","A","L">>),
                        backup_enabled |-> get("backup_enabled", TRUE),
                        backup_retention_days |-> get("backup_retention_days", 30),
                        excluded_assets |-> get("excluded_assets", {}),
                        excluded_pii_types |-> get("excluded_pii_types", {}),
                        require_confirmation |-> get("require_confirmation", TRUE),
                        max_findings_per_run |-> get("max_findings_per_run", 10000),
                        secret_key |-> get("secret_key", NoneStr) ],
              raised |-> "None"]

\* MaskingPolicy.validate(): the errors found, each named by the field at
\* fault (a set: their order and wording are not modelled)
Policy_validate(self) ==
    LET valid_strategies == {<<"R","E","D","A","C","T">>, <<"P","A","R","T","I","A","L">>, <<"T","O","K","E","N","I","Z","E">>, <<"F","P","E">>}
    IN  { "pii_type_strategies" : pii_type \in
             { t \in DOMAIN self.pii_type_strategies :
                 Upper(self.pii_type_strategies[t]) \notin valid_strategies } }
        \cup (IF Upper(self.default_strategy) \notin valid_strategies
              THEN {"default_strategy"} ELSE {})
        \cup (IF self.backup_retention_days < 0 THEN {"backup_retention_days"} ELSE {})
        \cup (IF self.max_findings_per_run <= 0 THEN {"max_findings_per_run"} ELSE {})

\* MaskingPolicy.to_dict(): the dictionary written by save_yaml and save_json
\* (the lists of excluded assets and types standing as the sets they list)
Policy_to_dict(self) ==
    [ name |-> self.name,
      description |-> self.description,
      mode |-> self.mode,
      pii_type_strategies |-> self.pii_type_strategies,
      default_strategy |-> self.default_strategy,
      backup_enabled |-> self.backup_enabled,
      backup_retention_days |-> self.backup_retention_days,
      excluded_assets |-> self.excluded_assets,
      excluded_pii_types |-> self.excluded_pii_types,
      require_confirmation |-> self.require_confirmation,
      max_findings_per_run |-> self.max_findings_per_run ]

\* self.get_masking_strategy_instance(pii_type).mask(value, pii_type): the
\* masked value, or the ValueError of get_masking_strategy
Policy_mask(self, value, pii_type) ==
    LET strategy_name == Upper(IF pii_type \in DOMAIN self.pii_type_strategies
                               THEN self.pii_type_strategies[pii_type]
                               ELSE self.default_strategy)
    IN  IF strategy_name = <<"R","E","D","A","C","T">>
        THEN strategy_mask("REDACT", self.secret_key, value, pii_type)
        ELSE IF strategy_name = <<"P","A","R","T","I","A","L">>
        THEN strategy_mask("PARTIAL", self.secret_key, value, pii_type)
        ELSE IF strategy_name = <<"T","O","K","E","N","I","Z","E">>
        THEN strategy_mask("TOKENIZE", self.secret_key, value, pii_type)
        ELSE IF strategy_name = <<"F","P","E">>
        THEN strategy_mask("FPE", self.secret_key, value, pii_type)
        ELSE Raises

---------------------------------------------------------------------------
(* sdk/masking/adapters/base.py and filesystem.py                            *)
(*                                                                           *)
(* A file system is a function from paths to contents, a content being the   *)
(* sequence of the file's characters. The adapter's methods are functions of *)
(* the file system, the backup directory, the clock and the adapter's own    *)
(* fields; each returns what the method returns and the storage it leaves.   *)

\* MaskingStatus
MaskingStatus ==
    [ PENDING |-> "pending", IN_PROGRESS |-> "in_progress", COMPLETED |-> "completed",
      FAILED |-> "failed", ROLLED_BACK |-> "rolled_back" ]

\* MaskingFinding (metadata, which no adapter reads, is left out)
MaskingFinding(value, pii_type, location, start_pos, end_pos) ==
    [ value |-> value, pii_type |-> pii_type, location |-> location,
      start_pos |-> start_pos, end_pos |-> end_pos ]

\* MaskingResult (duration_seconds and timestamp, the clock readings, and
\* details, which no adapter sets, are left out; error_message is "None" for None)
MaskingResult(status, total_findings, masked_count, failed_count, backup_location, error) ==
    [ status |-> status, total_findings |-> total_findings,
      masked_count |-> masked_count, failed_count |-> failed_count,
      backup_location |-> backup_location, error_message |-> error ]

\* f with key k bound to v
Put(f, k, v) == [x \in DOMAIN f \cup {k} |-> IF x = k THEN v ELSE f[x]]

\* the elements of seq in the order in which a stable sort by ascending key
\* leaves them, key[i] being the key of seq[i]
SortedBy(seq, key) ==
    [k \in 1..Len(seq) |->
        seq[CHOOSE i \in DOMAIN seq :
                Cardinality({ j \in DOMAIN seq :
                                \/ key[j] < key[i]
                                \/ key[j] = key[i] /\ j < i }) = k - 1]]

\* the findings as a dict keyed by finding.location yields them: locations in
\* the order of their first finding, the findings of one location in order
GroupByLocation(findings) ==
    LET first(i) == CHOOSE k \in DOMAIN findings :
                        /\ findings[k].location = findings[i].location
                        /\ \A j \in 1..(k - 1) : findings[j].location # findings[i].location
    IN  SortedBy(findings, [i \in DOMAIN findings |-> first(i)])

\* datetime.now().strftime("%Y%m%d_%H%M%S"), the clock counting seconds
Timestamp(now) == <<"2","0","2","4","0","1","0","1","_","0","0","0","0","0">> \o <<DigitChars[now + 1]>>

\* Path(path).name
Basename(path) == LET parts == Split(path, "/") IN parts[Len(parts)]

\* Path(path).suffix.lower()
FileExt(path) ==
    LET parts == Split(Basename(path), ".")
    IN  IF Len(parts) < 2 \/ Len(parts[Len(parts)]) = 0 THEN <<>>
        ELSE <<".">> \o Lower(parts[Len(parts)])

BACKUP_DIR == <<".","/","b","a","c","k","u","p","s">>

\* FilesystemMaskingAdapter.create_backup: the path returned (or None) and the
\* backup directory left
Fs_create_backup(source_location) ==
    IF ~backup_enabled THEN [ret |-> NoneStr, backups |-> fs_backups]
    ELSE IF dry_run
    THEN [ret |-> BACKUP_DIR \o <<"/","d","r","y","_","r","u","n","_","b","a","c","k","u","p">>, backups |-> fs_backups]
    ELSE LET backup_path == BACKUP_DIR \o <<"/">> \o Basename(source_location) \o <<".">>
                                \o Timestamp(clock) \o <<".","b","a","c","k","u","p">>
         IN  IF source_location \in DOMAIN fs_files /\ backup_dir_writable
             THEN [ret |-> backup_path,
                   backups |-> Put(fs_backups, backup_path, fs_files[source_location])]
             ELSE [ret |-> NoneStr, backups |-> fs_backups]

\* the loop of _mask_text over the sorted findings, from finding i on
RECURSIVE TextApply(_, _, _, _, _, _)
TextApply(content, sorted_findings, masking_strategy, i, masked_count, failed_count) ==
    IF i > Len(sorted_findings)
    THEN [content |-> content, masked_count |-> masked_count, failed_count |-> failed_count]
    ELSE LET finding == sorted_findings[i]
             masked_value == mask(masking_strategy, finding.value, finding.pii_type)
         IN  IF masked_value = Raises
             THEN TextApply(content, sorted_findings, masking_strategy, i + 1,
                            masked_count, failed_count + 1)
             ELSE TextApply(Take(content, finding.start_pos) \o masked_value
                                \o From(content, finding.end_pos),
                            sorted_findings, masking_strategy, i + 1,
                            masked_count + 1, failed_count)

\* a _mask_text that applies the replacements from the lowest offset to the
\* highest, against which C25 is checked
C25_mask_text_ascending(content, findings, masking_strategy) ==
    LET positioned == SelectSeq(findings,
                          LAMBDA f : f.start_pos # NonePos /\ f.end_pos # NonePos)
        sorted_findings ==
            SortedBy(positioned, [i \in DOMAIN positioned |-> positioned[i].start_pos])
    IN  TextApply(content, sorted_findings, masking_strategy, 1, 0, 0)
            @@ [error |-> "None"]

\* what _mask_text computes from the content it read: the content it writes
\* and its counts
mask_text(content, findings, masking_strategy) ==
    LET positioned == SelectSeq(findings,
                          LAMBDA f : f.start_pos # NonePos /\ f.end_pos # NonePos)
        \* sorted(..., key=lambda x: x.start_pos, reverse=True), which keeps
        \* findings of equal start_pos in their order
        sorted_findings ==
            SortedBy(positioned, [i \in DOMAIN positioned |-> 0 - positioned[i].start_pos])
    IN  TextApply(content, sorted_findings, masking_strategy, 1, 0, 0)
            @@ [error |-> "None"]

\* csv.DictReader over the text read: the field names and the rows, a row
\* being the sequence of its cells (cells free of separators and quotes)
CsvRead(content) ==
    LET lines == SelectSeq(Split(RemoveChar(content, "\r"), "\n"),
                           LAMBDA line : Len(line) > 0)
    IN  IF Len(lines) = 0 THEN [fieldnames |-> <<>>, rows |-> <<>>]
        ELSE [fieldnames |-> Split(lines[1], ","),
              rows |-> [k \in 1..(Len(lines) - 1) |-> Split(lines[k + 1], ",")]]

\* csv.DictWriter: writeheader and writerows
CsvWrite(fieldnames, rows) ==
    Join([k \in 1..(Len(rows) + 1) |->
              Join(IF k = 1 THEN fieldnames ELSE rows[k - 1], <<",">>)], <<"\r","\n">>)
        \o <<"\r","\n">>

\* the loop of _mask_csv over the grouped findings, from finding i on
RECURSIVE CsvApply(_, _, _, _, _, _, _)
CsvApply(rows, fieldnames, grouped, masking_strategy, i, masked_count, failed_count) ==
    IF i > Len(grouped)
    THEN [rows |-> rows, masked_count |-> masked_count, failed_count |-> failed_count,
          error |-> "None"]
    ELSE LET finding == grouped[i]
             parts == Split(finding.location, "_")
             row_idx == ParseInt(parts[2])
             column_name == Join(SubSeq(parts, 4, Len(parts)), <<"_">>)
             column == FirstIndex(fieldnames, column_name)
             masked_value == mask(masking_strategy, finding.value, finding.pii_type)
             skip == CsvApply(rows, fieldnames, grouped, masking_strategy, i + 1,
                              masked_count, failed_count)
         IN  IF Len(parts) < 4 THEN skip
             ELSE IF ~IsDigitStr(parts[2])
             THEN [rows |-> rows, masked_count |-> masked_count,
                   failed_count |-> failed_count, error |-> "ValueError"]
             ELSE IF ~(row_idx < Len(rows) /\ column > 0
                         /\ column <= Len(rows[row_idx + 1])) THEN skip
             ELSE IF masked_value = Raises
             THEN CsvApply(rows, fieldnames, grouped, masking_strategy, i + 1,
                           masked_count, failed_count + 1)
             ELSE CsvApply([rows EXCEPT ![row_idx + 1][column] = masked_value],
                           fieldnames, grouped, masking_strategy, i + 1,
                           masked_count + 1, failed_count)

\* what _mask_csv computes from the content it read: the content it writes,
\* its counts, and the exception that stopped it before the write, if any
mask_csv(content, findings, masking_strategy) ==
    LET table == CsvRead(content)
        applied == CsvApply(table.rows, table.fieldnames, GroupByLocation(findings),
                            masking_strategy, 1, 0, 0)
    IN  [ content |-> IF applied.error = "None"
                      THEN CsvWrite(table.fieldnames, applied.rows) ELSE content,
          masked_count |-> applied.masked_count, failed_count |-> applied.failed_count,
          error |-> applied.error ]

\* the format-specific masking mask_findings routes to (.csv, else text),
\* as a function of the content read
mask_content(file_ext, content, findings, masking_strategy) ==
    IF file_ext = <<".","c","s","v">> THEN mask_csv(content, findings, masking_strategy)
    ELSE mask_text(content, findings, masking_strategy)

\* FilesystemMaskingAdapter.mask_findings on a text or CSV target: the
\* MaskingResult returned and the storage left
Fs_mask_findings(findings, masking_strategy, source_location) ==
    LET backup == Fs_create_backup(source_location)
        backup_location == IF backup_enabled THEN backup.ret ELSE NoneStr
        backups == IF backup_enabled THEN backup.backups ELSE fs_backups
        n == Len(findings)
        masked == mask_content(FileExt(source_location), fs_files[source_location],
                               findings, masking_strategy)
    IN  IF backup_enabled /\ backup_location = NoneStr /\ ~dry_run
        THEN [ret |-> MaskingResult(MaskingStatus.FAILED, n, 0, n, NoneStr, "Failed to create backup"),
              files |-> fs_files, backups |-> backups]
        ELSE IF dry_run
        THEN [ret |-> MaskingResult(MaskingStatus.COMPLETED, n, n, 0, backup_location, "None"),
              files |-> fs_files, backups |-> backups]
        ELSE IF source_location \notin DOMAIN fs_files
        THEN [ret |-> MaskingResult(MaskingStatus.FAILED, n, 0, n, backup_location, "FileNotFoundError"),
              files |-> fs_files, backups |-> backups]
        ELSE IF masked.error # "None"
        THEN [ret |-> MaskingResult(MaskingStatus.FAILED, n, masked.masked_count,
                                    n - masked.masked_count, backup_location,
                                    masked.error),
              files |-> fs_files, backups |-> backups]
        ELSE [ret |-> MaskingResult(MaskingStatus.COMPLETED, n, masked.masked_count,
                                    masked.failed_count, backup_location, "None"),
              files |-> Put(fs_files, source_location, masked.content),
              backups |-> backups]

\* a rollback that reports success without copying the backup over the
\* target, against which C6 is checked
C6_rollback_without_copy(backup_location, target_location) ==
    [ret |-> TRUE, files |-> fs_files]

\* FilesystemMaskingAdapter.rollback: the boolean returned and the files left
Fs_rollback(backup_location, target_location) ==
    IF dry_run THEN [ret |-> TRUE, files |-> fs_files]
    ELSE IF backup_location \in DOMAIN fs_backups
    THEN [ret |-> TRUE,
          files |-> Put(fs_files, target_location, fs_backups[backup_location])]
    ELSE [ret |-> FALSE, files |-> fs_files]

\* FilesystemMaskingAdapter.verify_masking
Fs_verify_masking(source_location, findings) ==
    IF source_location \notin DOMAIN fs_files THEN FALSE
    \* `None in content` raises TypeError, which the method turns into False,
    \* unless an earlier finding's value was found, which returns False too
    ELSE IF \E i \in DOMAIN findings : findings[i].value = NoneStr THEN FALSE
    ELSE \A i \in DOMAIN findings :
            ~Contains(fs_files[source_location], findings[i].value)

---------------------------------------------------------------------------
(* sdk/masking/adapters/postgresql.py                                        *)
(*                                                                           *)
(* A database is a function from table names to tables, a table being its    *)
(* set of column names and the sequence of its rows, a row a function from   *)
(* column names to cells. The adapter holds one connection; a statement that *)
(* fails aborts the open transaction, every later statement of that          *)
(* transaction fails, and committing an aborted transaction rolls it back.   *)

\* parts[-1] and parts[-2] of finding.location.split('.')
ColumnOf(location) == LET parts == Split(location, ".") IN parts[Len(parts)]
TableOf(location, source_location) ==
    LET parts == Split(location, ".")
    IN  IF Len(parts) >= 2 THEN parts[Len(parts) - 1] ELSE source_location

\* whether the statement names an existing table and column
Resolves(db, table_name, column_name) ==
    table_name \in DOMAIN db /\ column_name \in db[table_name].columns

\* the rows a WHERE column = value clause selects (no row when value is NULL)
Matching(table, column_name, value) ==
    { r \in DOMAIN table.rows : value # NoneStr /\ table.rows[r][column_name] = value }

\* PostgreSQLMaskingAdapter.create_backup: the table name returned (None, also
\* when an exception escapes instead), the database left and whether the
\* connection is left in an aborted transaction
Pg_create_backup(source_location) ==
    LET backup_table == source_location \o <<"_","b","a","c","k","u","p","_">> \o Timestamp(clock)
        same == [raised |-> FALSE, db |-> pg_db, aborted |-> pg_aborted]
    IN  IF ~backup_enabled THEN [ret |-> NoneStr] @@ same
        ELSE IF dry_run THEN [ret |-> backup_table] @@ same
        \* _connect() raises; conn and cursor, never bound, are read by the
        \* except and finally clauses
        ELSE IF ~db_up THEN [ret |-> NoneStr, raised |-> TRUE] @@ same
        ELSE IF /\ ~pg_aborted
                /\ source_location \in DOMAIN pg_db
                /\ backup_table \notin DOMAIN pg_db
        THEN [ret |-> backup_table, raised |-> FALSE, aborted |-> FALSE,
              db |-> Put(pg_db, backup_table, pg_db[source_location])]
        \* conn.rollback()
        ELSE [ret |-> NoneStr, aborted |-> FALSE] @@ same

\* the loop of mask_findings over the grouped findings, from finding i on:
\* the working copy of the database inside the transaction, whether the
\* transaction is aborted, and the counts
RECURSIVE PgApply(_, _, _, _, _, _, _, _)
PgApply(db, aborted, grouped, masking_strategy, source_location, i, masked_count, failed_count) ==
    IF i > Len(grouped)
    THEN [db |-> db, aborted |-> aborted, masked_count |-> masked_count,
          failed_count |-> failed_count]
    ELSE LET finding == grouped[i]
             column_name == ColumnOf(finding.location)
             table_name == TableOf(finding.location, source_location)
             masked_value == mask(masking_strategy, finding.value, finding.pii_type)
             hit == Matching(db[table_name], column_name, finding.value)
             rowcount == Cardinality(hit)
             updated == [db EXCEPT ![table_name].rows =
                            [r \in DOMAIN @ |->
                                IF r \in hit THEN [@[r] EXCEPT ![column_name] = masked_value]
                                ELSE @[r]]]
         IN  IF masked_value = Raises \/ aborted
             THEN PgApply(db, aborted, grouped, masking_strategy, source_location,
                          i + 1, masked_count, failed_count + 1)
             ELSE IF ~Resolves(db, table_name, column_name)
             THEN PgApply(db, TRUE, grouped, masking_strategy, source_location,
                          i + 1, masked_count, failed_count + 1)
             ELSE IF rowcount > 0
             THEN PgApply(updated, aborted, grouped, masking_strategy, source_location,
                          i + 1, masked_count + rowcount, failed_count)
             ELSE PgApply(db, aborted, grouped, masking_strategy, source_location,
                          i + 1, masked_count, failed_count + 1)

\* PostgreSQLMaskingAdapter.mask_findings: the MaskingResult returned (or the
\* exception that escapes), the database left and the connection's state
Pg_mask_findings(findings, masking_strategy, source_location) ==
    LET backup == IF backup_enabled THEN Pg_create_backup(source_location)
                  ELSE [ret |-> NoneStr, raised |-> FALSE, db |-> pg_db,
                        aborted |-> pg_aborted]
        backup_location == backup.ret
        n == Len(findings)
        applied == PgApply(backup.db, backup.aborted, GroupByLocation(findings),
                           masking_strategy, source_location, 1, 0, 0)
        left == [raised |-> FALSE, db |-> backup.db, aborted |-> backup.aborted]
    IN  IF backup.raised THEN [ret |-> None, raised |-> TRUE] @@ left
        ELSE IF backup_enabled /\ backup_location = NoneStr /\ ~dry_run
        THEN [ret |-> MaskingResult(MaskingStatus.FAILED, n, 0, n, NoneStr, "Failed to create backup")]
                 @@ left
        ELSE IF dry_run
        THEN [ret |-> MaskingResult(MaskingStatus.COMPLETED, n, n, 0, backup_location, "None")] @@ left
        ELSE IF ~db_up THEN [ret |-> None, raised |-> TRUE] @@ left
        ELSE [ret |-> MaskingResult(MaskingStatus.COMPLETED, n, applied.masked_count,
                                    applied.failed_count, backup_location, "None"),
              raised |-> FALSE,
              \* conn.commit(), which rolls an aborted transaction back
              db |-> IF applied.aborted THEN backup.db ELSE applied.db,
              aborted |-> FALSE]

\* PostgreSQLMaskingAdapter.rollback: the boolean returned (or the exception
\* that escapes), the database left and the connection's state
Pg_rollback(backup_location, target_location) ==
    LET deleted == [pg_db EXCEPT ![target_location].rows = <<>>]
        restored == [deleted EXCEPT ![target_location].rows =
                        @ \o deleted[backup_location].rows]
        same == [raised |-> FALSE, db |-> pg_db, aborted |-> pg_aborted]
    IN  IF dry_run THEN [ret |-> TRUE] @@ same
        ELSE IF ~db_up THEN [ret |-> FALSE, raised |-> TRUE] @@ same
        ELSE IF /\ ~pg_aborted
                /\ target_location \in DOMAIN pg_db
                /\ backup_location \in DOMAIN pg_db
                /\ pg_db[backup_location].columns = pg_db[target_location].columns
        THEN [ret |-> TRUE, raised |-> FALSE, db |-> restored, aborted |-> FALSE]
        \* conn.rollback()
        ELSE [ret |-> FALSE, aborted |-> FALSE] @@ same

\* the loop of verify_masking, from finding i on: the boolean returned and
\* the connection's state, a failed statement leaving the transaction aborted
RECURSIVE PgVerify(_, _, _)
PgVerify(source_location, findings, i) ==
    IF pg_aborted THEN [ret |-> FALSE, aborted |-> TRUE]
    ELSE IF i > Len(findings) THEN [ret |-> TRUE, aborted |-> FALSE]
    ELSE LET column_name == ColumnOf(findings[i].location)
             table_name == TableOf(findings[i].location, source_location)
         IN  IF ~Resolves(pg_db, table_name, column_name)
             THEN [ret |-> FALSE, aborted |-> TRUE]
             ELSE IF Matching(pg_db[table_name], column_name, findings[i].value) # {}
             THEN [ret |-> FALSE, aborted |-> FALSE]
             ELSE PgVerify(source_location, findings, i + 1)

\* PostgreSQLMaskingAdapter.verify_masking: the boolean returned (or the
\* exception that escapes) and the connection's state
Pg_verify_masking(source_location, findings) ==
    IF ~db_up THEN [ret |-> FALSE, raised |-> TRUE, aborted |-> pg_aborted]
    ELSE PgVerify(source_location, findings, 1) @@ [raised |-> FALSE]
---------------------------------------------------------------------------
(* The masking adapters as a state machine: one adapter, constructed with    *)
(* its backup_enabled and dry_run flags, whose methods a caller invokes in   *)
(* any order on the targets below, while the clock advances and the          *)
(* environment writes to the targets.                                        *)

\* how many adapter calls and writes of the environment a behaviour makes
MaxOps == 2
\* how many seconds the clock advances
MaxClock == 1

TEXT_FILE == <<"/","d","a","t","a","/","n","o","t","e","s",".","t","x","t">>
CSV_FILE == <<"/","d","a","t","a","/","u","s","e","r","s",".","c","s","v">>
MEMO_FILE == <<"/","d","a","t","a","/","m","e","m","o",".","t","x","t">>
USERS == <<"u","s","e","r","s">>
EMAIL == <<"e","m","a","i","l">>
NOTES == <<"n","o","t","e","s">>

\* the files and the tables before the first call
InitialFiles ==
    [ path \in {TEXT_FILE, CSV_FILE, MEMO_FILE} |->
        IF path = TEXT_FILE THEN <<"c","a","l","l"," ","9","1","2","3","4","5","6","7","8","9"," ","o","r"," ","9","9","8","8","7","7","6","6","5","5"," ","n","o","w">>
        ELSE IF path = MEMO_FILE THEN <<"p","i","n"," ","7"," ","f","o","r"," ","T","E","D">>
        ELSE <<"e","m","a","i","l",",","p","h","o","n","e","\n","a","@","b",".","c","o",",","9","1","2","3","4","5","6","7","8","9","\n","c","@","d",".","i","n",",","9","9","8","8","7","7","6","6","5","5","\n">> ]

InitialDb ==
    LET Row(email, notes) == [c \in {EMAIL, NOTES} |-> IF c = EMAIL THEN email ELSE notes]
    IN
    [ t \in {USERS} |->
        [ columns |-> {EMAIL, NOTES},
          rows |-> << Row(<<"a","@","b",".","c","o">>, <<"v","i","p">>), Row(<<"c","@","d",".","i","n">>, <<"c","c"," ","a","@","b",".","c","o">>),
                      Row(<<"a","@","b",".","c","o">>, <<"c","@","d",".","i","n">>) >> ] ]

\* the calls made on an adapter: the findings, the strategy and the
\* source_location passed to mask_findings (and to verify_masking); among
\* them findings without positions, without a value, on a missing column, a
\* file and a table that do not exist
Calls(adapter_name) ==
    LET Call(source_location, findings, masking_strategy) ==
            [ source_location |-> source_location, findings |-> findings,
              masking_strategy |-> masking_strategy ]
        t1 == MaskingFinding(<<"9","1","2","3","4","5","6","7","8","9">>, <<"I","N","_","P","H","O","N","E">>, TEXT_FILE, 5, 15)
        t2 == MaskingFinding(<<"9","9","8","8","7","7","6","6","5","5">>, <<"I","N","_","P","H","O","N","E">>, TEXT_FILE, 19, 29)
        tn == MaskingFinding(NoneStr, <<"I","N","_","P","H","O","N","E">>, TEXT_FILE, 0, 4)
        c1 == MaskingFinding(<<"9","1","2","3","4","5","6","7","8","9">>, <<"I","N","_","P","H","O","N","E">>, <<"r","o","w","_","0","_","c","o","l","u","m","n","_","p","h","o","n","e">>,
                             NonePos, NonePos)
        c2 == MaskingFinding(<<"c","@","d",".","i","n">>, <<"E","M","A","I","L","_","A","D","D","R","E","S","S">>, <<"r","o","w","_","1","_","c","o","l","u","m","n","_","e","m","a","i","l">>,
                             NonePos, NonePos)
        cx == MaskingFinding(<<"a","@","b",".","c","o">>, <<"E","M","A","I","L","_","A","D","D","R","E","S","S">>, <<"r","o","w","_","x","_","c","o","l","u","m","n","_","e","m","a","i","l">>,
                             NonePos, NonePos)
        p1 == MaskingFinding(<<"a","@","b",".","c","o">>, <<"E","M","A","I","L","_","A","D","D","R","E","S","S">>, <<"u","s","e","r","s",".","e","m","a","i","l">>,
                             NonePos, NonePos)
        p2 == MaskingFinding(<<"c","@","d",".","i","n">>, <<"E","M","A","I","L","_","A","D","D","R","E","S","S">>, <<"p","u","b","l","i","c",".","u","s","e","r","s",".","e","m","a","i","l">>,
                             NonePos, NonePos)
        pc1 == MaskingFinding(<<"v","i","p">>, <<"P","E","R","S","O","N">>, <<"u","s","e","r","s",".","n","i","c","k","n","a","m","e">>, NonePos, NonePos)
        pn == MaskingFinding(NoneStr, <<"E","M","A","I","L","_","A","D","D","R","E","S","S">>, <<"u","s","e","r","s",".","e","m","a","i","l">>,
                             NonePos, NonePos)
        p0 == MaskingFinding(<<"c","@","d",".","i","n">>, <<"E","M","A","I","L","_","A","D","D","R","E","S","S">>, <<"n","o","t","e","s">>, NonePos, NonePos)
    IN  IF adapter_name = "filesystem"
        THEN { Call(TEXT_FILE, <<t1>>, "REDACT"), Call(TEXT_FILE, <<t2, t1>>, "REDACT"),
               Call(TEXT_FILE, <<t1, t2>>, "PARTIAL"), Call(TEXT_FILE, <<t2, tn>>, "PARTIAL"),
               Call(TEXT_FILE, << >>, "REDACT"),
               Call(CSV_FILE, <<c1>>, "REDACT"), Call(CSV_FILE, <<c1, c2>>, "PARTIAL"),
               Call(CSV_FILE, <<c2, cx>>, "REDACT"),
               Call(<<"/","d","a","t","a","/","g","o","n","e",".","t","x","t">>, <<t1>>, "REDACT") }
        ELSE { Call(USERS, <<p1>>, "REDACT"), Call(USERS, <<p1, p2>>, "PARTIAL"),
               Call(USERS, <<p1, pc1, p2>>, "REDACT"), Call(USERS, <<p2, pn>>, "PARTIAL"),
               Call(USERS, <<p0>>, "REDACT"), Call(<<"o","r","d","e","r","s">>, <<p1>>, "REDACT") }

\* calls made with each of the four strategies, on findings given in and out
\* of the order of their positions, with spans shorter and longer than what
\* replaces them, adjacent spans, and a finding without positions
StrategyCalls(adapter_name) ==
    LET Call(source_location, findings, masking_strategy) ==
            [ source_location |-> source_location, findings |-> findings,
              masking_strategy |-> masking_strategy ]
        t1 == MaskingFinding(<<"9","1","2","3","4","5","6","7","8","9">>, <<"I","N","_","P","H","O","N","E">>, TEXT_FILE, 5, 15)
        t2 == MaskingFinding(<<"9","9","8","8","7","7","6","6","5","5">>, <<"I","N","_","P","H","O","N","E">>, TEXT_FILE, 19, 29)
        t0 == MaskingFinding(<<"9","1","2","3","4","5","6","7","8","9">>, <<"I","N","_","P","H","O","N","E">>, TEXT_FILE, NonePos, NonePos)
        tn == MaskingFinding(NoneStr, <<"I","N","_","P","H","O","N","E">>, TEXT_FILE, 0, 4)
        w1 == MaskingFinding(<<"c","a","l","l">>, <<"P","E","R","S","O","N">>, TEXT_FILE, 0, 4)
        w2 == MaskingFinding(<<" ","o","r"," ">>, <<"P","E","R","S","O","N">>, TEXT_FILE, 15, 19)
        w3 == MaskingFinding(<<"n","o","w">>, <<"P","E","R","S","O","N">>, TEXT_FILE, 30, 33)
        m1 == MaskingFinding(<<"7">>, <<"P","I","N">>, MEMO_FILE, 4, 5)
        m2 == MaskingFinding(<<"T","E","D">>, <<"P","E","R","S","O","N">>, MEMO_FILE, 10, 13)
        c2 == MaskingFinding(<<"c","@","d",".","i","n">>, <<"E","M","A","I","L","_","A","D","D","R","E","S","S">>, <<"r","o","w","_","1","_","c","o","l","u","m","n","_","e","m","a","i","l">>,
                             NonePos, NonePos)
        p1 == MaskingFinding(<<"a","@","b",".","c","o">>, <<"E","M","A","I","L","_","A","D","D","R","E","S","S">>, <<"u","s","e","r","s",".","e","m","a","i","l">>,
                             NonePos, NonePos)
        p2 == MaskingFinding(<<"c","@","d",".","i","n">>, <<"E","M","A","I","L","_","A","D","D","R","E","S","S">>, <<"p","u","b","l","i","c",".","u","s","e","r","s",".","e","m","a","i","l">>,
                             NonePos, NonePos)
    IN  IF adapter_name = "filesystem"
        THEN { Call(TEXT_FILE, <<t1>>, "TOKENIZE"), Call(TEXT_FILE, <<t1, t2>>, "TOKENIZE"),
               Call(TEXT_FILE, <<t2, t1>>, "FPE"), Call(TEXT_FILE, <<t1, w3, w1>>, "REDACT"),
               Call(TEXT_FILE, <<w2, t2, t1>>, "PARTIAL"), Call(TEXT_FILE, <<t2, tn>>, "PARTIAL"),
               Call(TEXT_FILE, <<t0>>, "REDACT"),
               Call(MEMO_FILE, <<m1>>, "FPE"), Call(MEMO_FILE, <<m2>>, "REDACT"),
               Call(CSV_FILE, <<c2>>, "TOKENIZE") }
        ELSE { Call(USERS, <<p2>>, "TOKENIZE"), Call(USERS, <<p1>>, "FPE"),
               Call(USERS, <<p2, p1>>, "PARTIAL"), Call(USERS, <<p1>>, "REDACT") }

\* the content of a target, None for a target that does not exist
Target(files, db, location) ==
    IF adapter = "filesystem"
    THEN IF location \in DOMAIN files THEN files[location] ELSE NoneStr
    ELSE IF location \in DOMAIN db THEN db[location] ELSE None

\* the record kept of a call: what was passed, what came back, and the
\* target's content before and after
Op(name, target, findings, masking_strategy, backup_location, ret, raised, before, after) ==
    [ name |-> name, target |-> target, findings |-> findings,
      masking_strategy |-> masking_strategy, backup_location |-> backup_location,
      ret |-> ret, raised |-> raised, before |-> before, after |-> after ]

\* the record kept of the latest mask_findings call is [op, since]: the call,
\* and what has been called since ("nothing", the name of the one call, or
\* "other"); Since is that record after one more call
Since(event) ==
    IF last_mask = None THEN None
    ELSE [last_mask EXCEPT !.since = IF @ = "nothing" THEN event ELSE "other"]

MaskInit ==
    /\ adapter \in {"filesystem", "postgresql"}
    /\ backup_enabled \in BOOLEAN
    /\ dry_run \in BOOLEAN
    /\ backup_dir_writable \in (IF adapter = "filesystem" THEN BOOLEAN ELSE {TRUE})
    /\ db_up \in (IF adapter = "postgresql" THEN BOOLEAN ELSE {TRUE})
    /\ fs_files = InitialFiles
    /\ fs_backups = << >>
    /\ pg_db = InitialDb
    /\ pg_aborted = FALSE
    /\ clock = 0
    /\ last_op = None
    /\ last_mask = None
    /\ n_ops = 0
    \* the policy the caller holds: the default one (strict) or a lenient one
    /\ policy \in { from_dict([name |-> <<"d","e","f","a","u","l","t">>]).ret,
                    from_dict([name |-> <<"d","e","v","e","l","o","p","m","e","n","t">>, mode |-> <<"l","e","n","i","e","n","t">>]).ret }
    /\ policy_checked = FALSE
    /\ pol_op = None
    /\ ValIdle /\ ConcIdle /\ FnIdle /\ ScanIdle /\ EngIdle

\* adapter.mask_findings(findings, masking_strategy, source_location)
MaskFindings(call) ==
    /\ n_ops < MaxOps
    /\ \E r \in { IF adapter = "filesystem"
                  THEN Fs_mask_findings(call.findings, call.masking_strategy,
                                        call.source_location)
                           @@ [raised |-> FALSE, db |-> pg_db, aborted |-> pg_aborted]
                  ELSE Pg_mask_findings(call.findings, call.masking_strategy,
                                        call.source_location)
                           @@ [files |-> fs_files, backups |-> fs_backups] } :
          /\ fs_files' = r.files
          /\ fs_backups' = r.backups
          /\ pg_db' = r.db
          /\ pg_aborted' = r.aborted
          /\ last_op' = Op("mask_findings", call.source_location, call.findings,
                          call.masking_strategy,
                          IF r.raised THEN NoneStr ELSE r.ret.backup_location,
                          r.ret, r.raised,
                          Target(fs_files, pg_db, call.source_location),
                          Target(r.files, r.db, call.source_location))
          /\ last_mask' = [op |-> last_op', since |-> "nothing"]
    /\ n_ops' = n_ops + 1
    /\ UNCHANGED <<adapter, backup_enabled, dry_run, backup_dir_writable, db_up, clock>>
    /\ UNCHANGED <<valVars, concVars, polVars, fnVars, scanVars, engVars>>

\* adapter.rollback(backup_location, target_location)
Rollback(backup_location, target_location) ==
    /\ n_ops < MaxOps
    /\ \E r \in { IF adapter = "filesystem"
                  THEN Fs_rollback(backup_location, target_location)
                           @@ [raised |-> FALSE, db |-> pg_db, aborted |-> pg_aborted]
                  ELSE Pg_rollback(backup_location, target_location)
                           @@ [files |-> fs_files] } :
          /\ fs_files' = r.files
          /\ pg_db' = r.db
          /\ pg_aborted' = r.aborted
          /\ last_op' = Op("rollback", target_location, << >>, "None", backup_location,
                          r.ret, r.raised,
                          Target(fs_files, pg_db, target_location),
                          Target(r.files, r.db, target_location))
          /\ last_mask' = Since("rollback")
    /\ n_ops' = n_ops + 1
    /\ UNCHANGED <<adapter, backup_enabled, dry_run, backup_dir_writable, db_up,
                   fs_backups, clock>>
    /\ UNCHANGED <<valVars, concVars, polVars, fnVars, scanVars, engVars>>

\* adapter.verify_masking(source_location, findings)
VerifyMasking(call) ==
    /\ n_ops < MaxOps
    /\ \E r \in { IF adapter = "filesystem"
                  THEN [ret |-> Fs_verify_masking(call.source_location, call.findings),
                        raised |-> FALSE, aborted |-> pg_aborted]
                  ELSE Pg_verify_masking(call.source_location, call.findings) } :
          /\ pg_aborted' = r.aborted
          /\ last_op' = Op("verify_masking", call.source_location, call.findings,
                          "None", NoneStr, r.ret, r.raised,
                          Target(fs_files, pg_db, call.source_location),
                          Target(fs_files, pg_db, call.source_location))
          /\ last_mask' = Since("verify_masking")
    /\ n_ops' = n_ops + 1
    /\ UNCHANGED <<adapter, backup_enabled, dry_run, backup_dir_writable, db_up,
                   fs_files, fs_backups, pg_db, clock>>
    /\ UNCHANGED <<valVars, concVars, polVars, fnVars, scanVars, engVars>>

\* the backup locations a caller can pass to rollback: those the adapter
\* returned, and one that names no backup
BackupLocations ==
    (IF last_mask = None THEN {} ELSE {last_mask.op.backup_location})
        \cup (IF adapter = "filesystem" THEN DOMAIN fs_backups
              ELSE DOMAIN pg_db \ {USERS})
        \cup { BACKUP_DIR \o <<"/","n","o","n","e">> }

\* the targets a caller can pass to rollback
Targets == IF adapter = "filesystem" THEN {TEXT_FILE, CSV_FILE} ELSE {USERS}

\* the environment writes a value into a target: appended to a file, or
\* stored in a cell of the first row of the table
Reinject(target, value, column) ==
    /\ n_ops < MaxOps
    /\ IF adapter = "filesystem"
       THEN /\ column = EMAIL
            /\ fs_files' = [fs_files EXCEPT ![target] = @ \o <<" ">> \o value]
            /\ pg_db' = pg_db
       ELSE /\ pg_db' = [pg_db EXCEPT ![target].rows[1][column] = value]
            /\ fs_files' = fs_files
    /\ last_op' = Op("write", target, << >>, "None", NoneStr, TRUE, FALSE,
                     Target(fs_files, pg_db, target), Target(fs_files', pg_db', target))
    /\ last_mask' = Since("write")
    /\ n_ops' = n_ops + 1
    /\ UNCHANGED <<adapter, backup_enabled, dry_run, backup_dir_writable, db_up,
                   fs_backups, pg_aborted, clock>>
    /\ UNCHANGED <<valVars, concVars, polVars, fnVars, scanVars, engVars>>

\* a second passes
Tick ==
    /\ clock < MaxClock
    /\ clock' = clock + 1
    /\ UNCHANGED <<adapter, backup_enabled, dry_run, backup_dir_writable, db_up,
                   fs_files, fs_backups, pg_db, pg_aborted, last_op, last_mask, n_ops>>
    /\ UNCHANGED <<valVars, concVars, polVars, fnVars, scanVars, engVars>>


---------------------------------------------------------------------------
(* Two callers inside FilesystemMaskingAdapter.mask_findings on the same     *)
(* file at once. Neither mask_findings nor _mask_text and _mask_csv takes a  *)
(* lock, so the steps of the two calls interleave at every access to the     *)
(* file: the copy into the backup directory, the read, the open for writing  *)
(* (which truncates the file) and the write.                                 *)

\* the two callers
Procs == {"A", "B"}

\* what one mask_findings call leaves in a file holding content: the masked
\* content, or the content as it was when the format-specific step raises
MaskedContent(call, content) ==
    LET masked == mask_content(FileExt(call.source_location), content, call.findings,
                               call.masking_strategy)
    IN  IF masked.error = "None" THEN masked.content ELSE content

ConcInit ==
    /\ \E file \in {TEXT_FILE, CSV_FILE} :
          conc_call \in [Procs -> {call \in Calls("filesystem") : call.source_location = file}]
    /\ pc = [p \in Procs |-> "create_backup"]
    /\ read_content = [p \in Procs |-> NoneStr]
    \* one filesystem adapter, backups enabled, not in dry-run
    /\ adapter = "filesystem"
    /\ backup_enabled = TRUE
    /\ dry_run = FALSE
    /\ backup_dir_writable = TRUE
    /\ db_up = TRUE
    /\ fs_files = InitialFiles
    /\ fs_backups = << >>
    /\ pg_db = InitialDb
    /\ pg_aborted = FALSE
    /\ clock = 0
    /\ last_op = None
    /\ last_mask = None
    /\ n_ops = 0
    /\ ValIdle /\ PolIdle /\ FnIdle /\ ScanIdle /\ EngIdle

\* mask_findings up to the return of create_backup
CreateBackup(p) ==
    /\ pc[p] = "create_backup"
    /\ \E backup \in {Fs_create_backup(conc_call[p].source_location)} :
          /\ fs_backups' = backup.backups
          /\ pc' = [pc EXCEPT ![p] = IF backup.ret = NoneStr THEN "done" ELSE "read"]
    /\ UNCHANGED <<fs_files, read_content, conc_call>>
    /\ UNCHANGED <<adapter, backup_enabled, dry_run, backup_dir_writable, db_up, pg_db,
                   pg_aborted, clock, last_op, last_mask, n_ops>>
    /\ UNCHANGED <<valVars, polVars, fnVars, scanVars, engVars>>

\* with open(file_path, 'r'): the content is read and the replacements are
\* made in memory; an exception there ends the call before any write
Read(p) ==
    /\ pc[p] = "read"
    /\ read_content' = [read_content EXCEPT ![p] = fs_files[conc_call[p].source_location]]
    /\ pc' = [pc EXCEPT ![p] =
                 IF mask_content(FileExt(conc_call[p].source_location),
                                 fs_files[conc_call[p].source_location],
                                 conc_call[p].findings,
                                 conc_call[p].masking_strategy).error = "None"
                 THEN "open" ELSE "done"]
    /\ UNCHANGED <<fs_files, fs_backups, conc_call>>
    /\ UNCHANGED <<adapter, backup_enabled, dry_run, backup_dir_writable, db_up, pg_db,
                   pg_aborted, clock, last_op, last_mask, n_ops>>
    /\ UNCHANGED <<valVars, polVars, fnVars, scanVars, engVars>>

\* with open(file_path, 'w'): the file is truncated
OpenForWriting(p) ==
    /\ pc[p] = "open"
    /\ fs_files' = [fs_files EXCEPT ![conc_call[p].source_location] = << >>]
    /\ pc' = [pc EXCEPT ![p] = "write"]
    /\ UNCHANGED <<fs_backups, read_content, conc_call>>
    /\ UNCHANGED <<adapter, backup_enabled, dry_run, backup_dir_writable, db_up, pg_db,
                   pg_aborted, clock, last_op, last_mask, n_ops>>
    /\ UNCHANGED <<valVars, polVars, fnVars, scanVars, engVars>>

\* f.write(content), or the writer's rows, and the close
Write(p) ==
    /\ pc[p] = "write"
    /\ fs_files' = [fs_files EXCEPT ![conc_call[p].source_location] =
                       MaskedContent(conc_call[p], read_content[p])]
    /\ pc' = [pc EXCEPT ![p] = "done"]
    /\ UNCHANGED <<fs_backups, read_content, conc_call>>
    /\ UNCHANGED <<adapter, backup_enabled, dry_run, backup_dir_writable, db_up, pg_db,
                   pg_aborted, clock, last_op, last_mask, n_ops>>
    /\ UNCHANGED <<valVars, polVars, fnVars, scanVars, engVars>>
---------------------------------------------------------------------------
(* The policy engine as a state machine: a caller loads policies from        *)
(* dictionaries and calls the methods of the policy it holds, in any order.  *)

PolInit ==
    /\ policy = None
    /\ policy_checked = FALSE
    /\ pol_op = None
    /\ MaskIdle /\ ConcIdle /\ ValIdle /\ FnIdle /\ ScanIdle /\ EngIdle

\* policy = MaskingPolicy.from_dict(data); when from_dict raises, the caller
\* keeps the policy it held
FromDict(data) ==
    /\ \E r \in {from_dict(data)} :
          /\ policy' = IF r.raised = "None" THEN r.ret ELSE policy
          /\ policy_checked' = IF r.raised = "None" THEN FALSE ELSE policy_checked
          /\ pol_op' = [name |-> "from_dict", ret |-> r.ret, raised |-> r.raised]
    /\ UNCHANGED <<valVars, maskVars, concVars, fnVars, scanVars, engVars>>

\* policy.validate()
Validate ==
    /\ policy # None
    /\ policy_checked' = TRUE
    /\ pol_op' = [name |-> "validate", ret |-> Policy_validate(policy), raised |-> "None"]
    /\ UNCHANGED policy
    /\ UNCHANGED <<valVars, maskVars, concVars, fnVars, scanVars, engVars>>

\* policy.get_masking_strategy_instance(pii_type): get_strategy_for_pii_type,
\* then get_masking_strategy of strategies.py, which returns an instance of
\* the class named or raises ValueError
GetMaskingStrategyInstance(pii_type) ==
    /\ policy # None
    /\ LET strategy_name ==
               IF pii_type \in DOMAIN policy.pii_type_strategies
               THEN policy.pii_type_strategies[pii_type]
               ELSE policy.default_strategy
           upper == Upper(strategy_name)
       IN  pol_op' =
             IF upper = <<"R","E","D","A","C","T">>
             THEN [name |-> "get_masking_strategy_instance", ret |-> "RedactStrategy", raised |-> "None"]
             ELSE IF upper = <<"P","A","R","T","I","A","L">>
             THEN [name |-> "get_masking_strategy_instance", ret |-> "PartialMaskStrategy", raised |-> "None"]
             ELSE IF upper = <<"T","O","K","E","N","I","Z","E">>
             THEN [name |-> "get_masking_strategy_instance", ret |-> "TokenizeStrategy", raised |-> "None"]
             ELSE IF upper = <<"F","P","E">>
             THEN [name |-> "get_masking_strategy_instance", ret |-> "FPEStrategy", raised |-> "None"]
             ELSE [name |-> "get_masking_strategy_instance", ret |-> "None", raised |-> "ValueError"]
    /\ UNCHANGED <<policy, policy_checked>>
    /\ UNCHANGED <<valVars, maskVars, concVars, fnVars, scanVars, engVars>>

\* policy.should_mask_pii_type(pii_type)
ShouldMaskPiiType(pii_type) ==
    /\ policy # None
    /\ pol_op' = [name |-> "should_mask_pii_type",
                  ret |-> pii_type \notin policy.excluded_pii_types, raised |-> "None"]
    /\ UNCHANGED <<policy, policy_checked>>
    /\ UNCHANGED <<valVars, maskVars, concVars, fnVars, scanVars, engVars>>

\* the policy is saved and loaded again:
\* policy = MaskingPolicy.from_dict(policy.to_dict()), as save_json followed
\* by from_json does; the record keeps the policy that was saved
SaveAndReload ==
    /\ policy # None
    /\ \E r \in {from_dict(Policy_to_dict(policy))} :
          /\ policy' = IF r.raised = "None" THEN r.ret ELSE policy
          /\ policy_checked' = IF r.raised = "None" THEN FALSE ELSE policy_checked
          /\ pol_op' = [name |-> "save_and_reload", ret |-> r.ret, raised |-> r.raised,
                        saved |-> policy]
    /\ UNCHANGED <<valVars, maskVars, concVars, fnVars, scanVars, engVars>>

\* the value callers mask with the strategy of the policy
POLICY_VALUE == <<"9","1","2","3","4","5","6","7","8","9">>

\* policy.get_masking_strategy_instance(pii_type).mask(value, pii_type)
MaskWithPolicy(pii_type) ==
    /\ policy # None
    /\ \E masked \in {Policy_mask(policy, POLICY_VALUE, pii_type)} :
          pol_op' = [name |-> "mask", pii_type |-> pii_type,
                     ret |-> IF masked = Raises THEN NoneStr ELSE masked,
                     raised |-> IF masked = Raises THEN "ValueError" ELSE "None"]
    /\ UNCHANGED <<policy, policy_checked>>
    /\ UNCHANGED <<valVars, maskVars, concVars, fnVars, scanVars, engVars>>

\* the dictionaries policies are loaded from: well-formed ones, ones that
\* break each rule of validate(), one with an unknown mode, one without a name
PolicyInputs ==
    { [name |-> <<"d","e","f","a","u","l","t">>],
      [name |-> <<"d","e","v","e","l","o","p","m","e","n","t">>, mode |-> <<"l","e","n","i","e","n","t">>, default_strategy |-> <<"T","O","K","E","N","I","Z","E">>],
      [name |-> <<"m","i","x","e","d">>, pii_type_strategies |-> (<<"I","N","_","P","A","N">> :> <<"r","e","d","a","c","t">>),
       excluded_pii_types |-> {<<"I","N","_","P","H","O","N","E">>}],
      [name |-> <<"s","t","r","i","c","t">>, default_strategy |-> <<"R","E","D","A","C","T">>,
       pii_type_strategies |-> (<<"I","N","_","P","A","N">> :> <<"F","P","E">>), backup_retention_days |-> 0],
      [name |-> <<"r","e","h","e","a","r","s","a","l">>, mode |-> <<"d","r","y","_","r","u","n">>,
       excluded_pii_types |-> {<<"E","M","A","I","L","_","A","D","D","R","E","S","S">>, <<"I","N","_","P","A","N">>}, max_findings_per_run |-> 1],
      [name |-> <<"l","e","n","i","e","n","t"," ","b","a","d">>, mode |-> <<"l","e","n","i","e","n","t">>, default_strategy |-> <<"P","a","r","t","i","a","l">>,
       pii_type_strategies |-> (<<"I","N","_","P","H","O","N","E">> :> <<>>), max_findings_per_run |-> 0 - 5],
      [name |-> <<"k","e","y","e","d">>, default_strategy |-> <<"T","O","K","E","N","I","Z","E">>,
       pii_type_strategies |-> (<<"I","N","_","P","A","N">> :> <<"F","P","E">>), secret_key |-> <<"k","1">>],
      [name |-> <<"b","a","d"," ","t","y","p","e"," ","s","t","r","a","t","e","g","y">>, pii_type_strategies |-> (<<"I","N","_","P","A","N">> :> <<"H","A","S","H">>)],
      [name |-> <<"b","a","d"," ","d","e","f","a","u","l","t">>, default_strategy |-> <<"M","A","S","K">>],
      [name |-> <<"b","a","d"," ","r","e","t","e","n","t","i","o","n">>, backup_retention_days |-> 0 - 1],
      [name |-> <<"b","a","d"," ","m","a","x">>, max_findings_per_run |-> 0],
      [name |-> <<"b","a","d"," ","m","o","d","e">>, mode |-> <<"p","a","r","a","n","o","i","d">>],
      [mode |-> <<"s","t","r","i","c","t">>] }

PolNext ==
    \/ \E data \in PolicyInputs : FromDict(data)
    \/ Validate
    \/ \E pii_type \in {<<"I","N","_","P","A","N">>, <<"I","N","_","P","H","O","N","E">>, <<"E","M","A","I","L","_","A","D","D","R","E","S","S">>} :
          GetMaskingStrategyInstance(pii_type)
    \/ \E pii_type \in {<<"I","N","_","P","A","N">>, <<"I","N","_","P","H","O","N","E">>, <<"E","M","A","I","L","_","A","D","D","R","E","S","S">>} :
          ShouldMaskPiiType(pii_type)
    \/ SaveAndReload
    \/ \E pii_type \in {<<"I","N","_","P","A","N">>, <<"I","N","_","P","H","O","N","E">>, <<"E","M","A","I","L","_","A","D","D","R","E","S","S">>} :
          MaskWithPolicy(pii_type)

\* the policy engine
SpecPolicy == PolInit /\ [][PolNext]_vars
---------------------------------------------------------------------------
(* apps/backend/pkg/validation/verhoeff.py: the backend's copy of the        *)
(* Verhoeff functions. Its MULTIPLICATION_TABLE, PERMUTATION_TABLE and       *)
(* INVERSE_TABLE hold the values of Verhoeff.d, Verhoeff.p and Verhoeff.inv. *)

verhoeff_validate(number) ==
    IF Len(number) = 0 THEN FALSE
    ELSE IF ~IsDigitStr(number) THEN FALSE
    ELSE VerhoeffFold(number, 0, 0, 0) = 0

\* the check digit, or the ValueError raised for an input that is empty or
\* not made of digits
verhoeff_generate_check_digit(number) ==
    IF Len(number) = 0 \/ ~IsDigitStr(number) THEN Raises
    ELSE <<DigitChars[Verhoeff_inv[VerhoeffFold(number, 0, 1, 0) + 1] + 1]>>

---------------------------------------------------------------------------
(* sdk/validators/blacklists.py                                              *)

TEST_DOMAINS == {
    <<"t","e","s","t",".","c","o","m">>, <<"e","x","a","m","p","l","e",".","c","o","m">>, <<"e","x","a","m","p","l","e",".","o","r","g">>, <<"e","x","a","m","p","l","e",".","n","e","t">>, <<"d","u","m","m","y",".","c","o","m">>,
    <<"s","a","m","p","l","e",".","c","o","m">>, <<"f","a","k","e",".","c","o","m">>, <<"m","o","c","k",".","c","o","m">>,
    <<"l","o","c","a","l","h","o","s","t">>, <<"t","e","s","t",".","l","o","c","a","l">>, <<"d","e","v",".","l","o","c","a","l">>, <<"l","o","c","a","l">>, <<"1","2","7",".","0",".","0",".","1">>,
    <<"m","a","i","l","i","n","a","t","o","r",".","c","o","m">>, <<"g","u","e","r","r","i","l","l","a","m","a","i","l",".","c","o","m">>, <<"t","e","m","p","-","m","a","i","l",".","o","r","g">>, <<"1","0","m","i","n","u","t","e","m","a","i","l",".","c","o","m">>,
    <<"t","h","r","o","w","a","w","a","y",".","e","m","a","i","l">>,
    <<"t","e","s","t">>, <<"i","n","v","a","l","i","d">> }

is_blacklisted_domain(email) ==
    IF Len(email) = 0 \/ ~Contains(email, <<"@">>) THEN FALSE
    ELSE LET parts == Split(email, "@")
             domain == Strip(Lower(parts[Len(parts)]))
             SUSPICIOUS_PATTERNS == {<<"t","e","s","t">>, <<"d","u","m","m","y">>, <<"f","a","k","e">>, <<"s","a","m","p","l","e">>, <<"e","x","a","m","p","l","e">>}
         IN  \/ domain \in TEST_DOMAINS
             \/ \E pattern \in SUSPICIOUS_PATTERNS : Contains(domain, pattern)

---------------------------------------------------------------------------
(* The validators called on their own: an argument is drawn, and the        *)
(* functions are applied to it.                                             *)

\* the longest of the digit strings drawn exhaustively
MaxDigits == 3

\* the arguments drawn
FnInputs ==
    LET Digits(n) == [1..n -> Range(DigitChars)]
        Letters == Range(UpperChars)
    IN  \* every digit string of up to MaxDigits digits
        UNION { Digits(n) : n \in 1..MaxDigits }
        \* 8 to 12 digits: bases followed by every pair of digits
        \cup { base \o pair :
                 base \in { <<"1","2","3","4","5","6">>, <<"1","2","3","4","5","6","7","8">>, <<"9","8","7","6","5","4","3","2">>, <<"1","2","3","4","1","2","3","4">>,
                            <<"9","1","2","3","4","5","6","7">>, <<"1","1","1","1","2","2","2","2">>, <<"5","6","7","8","9","0","1","2">>, <<"1","2","3","4","5","1","2","3">>,
                            <<"9","9","9","9","1","1","1","1","2">>,
                            <<"2","3","4","5","6","7","8","9","0">>, <<"9","9","9","9","1","1","1","1","2","2">>, <<"2","3","4","5","6","7","8","9","0","1">> },
                 pair \in Digits(2) }
        \cup { <<"9","9","9","9"," ","1","1","1","1"," ","2","2","2","6">>, <<"1","2","3","4","5","a">>, <<>> }
        \* PAN-like strings: five letters, four digits and every tenth letter
        \cup { first_5 \o digits \o <<check>> :
                 first_5 \in { <<"A","A","A","P","C">>, <<"A","N","A","P","C">>, <<"A","A","A","P","P">>, <<"B","N","Z","P","K">>, <<"A","B","C","D","E">>,
                               <<"A","A","A","A","C">>, <<"A","A","A","Z","C">>, <<"Q","Z","X","H","M">> },
                 digits \in { <<"1","2","3","4">>, <<"0","0","7","1">>, <<"9","9","9","9">> },
                 check \in Letters }
        \cup { <<"a","a","a","p","c","1","2","3","4","o">>, <<"A","A","A","P","C"," ","1","2","3","4","-","O">>, <<"A","A","A","P","C","1","2","3","4","5">>, <<"A","A","A","P","1","2","3","4","O">> }
        \* addresses
        \cup { local \o <<"@">> \o domain :
                 local \in { <<"u","s","e","r">>, <<"j","o","h","n",".","d","o","e">>, <<"T","e","s","t","+","t","a","g">>, <<".","u","s","e","r">>, <<>> },
                 domain \in { <<"e","x","a","m","p","l","e",".","c","o","m">>, <<"t","e","s","t",".","c","o","m">>, <<"m","a","i","l","i","n","a","t","o","r",".","c","o","m">>,
                              <<"c","o","m","p","a","n","y",".","c","o","m">>, <<"g","m","a","i","l",".","c","o","m">>, <<"t","e","s","t","d","o","m","a","i","n",".","c","o","m">>,
                              <<"b",".","c","o">>, <<"l","o","c","a","l","h","o","s","t">>, <<"E","x","a","m","p","l","e",".","C","O","M"," ">>, <<"t","e","m","p","-","m","a","i","l",".","o","r","g">>,
                              <<"1","0","m","i","n","u","t","e","m","a","i","l",".","c","o","m">>, <<"d","o","m","a","i","n",".",".","c","o","m">> } }

FnInit ==
    /\ fn_input \in FnInputs
    /\ fn_output = None
    /\ ValIdle /\ MaskIdle /\ ConcIdle /\ PolIdle /\ ScanIdle /\ EngIdle

\* Verhoeff.generate_check_digit(fn_input) and verhoeff_generate_check_digit
\* (fn_input), each followed by the validation of fn_input + check digit by
\* the same implementation
GenerateCheckDigit ==
    /\ fn_output' =
         LET scanner == IF Len(fn_input) = 0 \/ ~IsDigitStr(fn_input) THEN Raises
                        ELSE Verhoeff_generate_check_digit(fn_input)
             backend == verhoeff_generate_check_digit(fn_input)
         IN  [ name |-> "generate_check_digit",
               scanner |-> scanner,
               scanner_validate |-> scanner # Raises /\ Verhoeff_validate(fn_input \o scanner),
               backend |-> backend,
               backend_validate |-> backend # Raises /\ verhoeff_validate(fn_input \o backend) ]
    /\ UNCHANGED fn_input
    /\ UNCHANGED <<valVars, maskVars, concVars, polVars, scanVars, engVars>>

\* validate_pan(fn_input)
ValidatePan ==
    /\ fn_output' = [name |-> "validate_pan", ret |-> validate_pan(fn_input)]
    /\ UNCHANGED fn_input
    /\ UNCHANGED <<valVars, maskVars, concVars, polVars, scanVars, engVars>>

\* is_dummy_data(fn_input)
IsDummyData ==
    /\ fn_output' = [name |-> "is_dummy_data", ret |-> is_dummy_data(fn_input)]
    /\ UNCHANGED fn_input
    /\ UNCHANGED <<valVars, maskVars, concVars, polVars, scanVars, engVars>>

\* validate_email(fn_input)
ValidateEmail ==
    /\ fn_output' = [name |-> "validate_email", ret |-> validate_email(fn_input)]
    /\ UNCHANGED fn_input
    /\ UNCHANGED <<valVars, maskVars, concVars, polVars, scanVars, engVars>>

FnNext ==
    \/ GenerateCheckDigit
    \/ ValidatePan
    \/ IsDummyData
    \/ ValidateEmail

\* the validators called on their own
SpecFn == FnInit /\ [][FnNext]_vars

---------------------------------------------------------------------------
(* The format-preserving strategy and the confidence adjustment called on   *)
(* their own: a text is drawn, and the functions are applied to it.         *)

\* the texts drawn: values to mask and context windows
TextInputs ==
    { <<>>, <<"+","9","1","9","1","2","3","4","5","6","7","8","9">>, <<"9","9","9","9"," ","1","1","1","1"," ","2","2","2","6">>, <<"9","1","2","3","4","5","6","7","8","9">>, <<"A","A","A","P","C"," ","1","2","3","4","-","O">>,
      <<"a","a","a","p","c","1","2","3","4","o">>, <<"a","@","b",".","c","o">>, <<"J","o","h","n",".","D","o","e","@","E","x","a","m","p","l","e",".","C","O","M">>, <<"M","H","-","0","1"," ","2","0","1","5","/","0","0","0","1","2","3","4">>,
      <<"c","a","l","l"," ","m","e"," ","n","o","w">>, <<"t","e","s","t"," ","d","a","t","a"," ","s","a","m","p","l","e">>, <<"l","i","v","e"," ","c","u","s","t","o","m","e","r"," ","a","c","c","o","u","n","t">>,
      <<"w","r","o","n","g"," ","e","r","r","o","r">>, <<"t","e","s","t"," ","c","u","s","t","o","m","e","r"," ","i","n","v","a","l","i","d">>, <<"T","e","s","t","+","t","a","g","@","t","e","s","t",".","c","o","m">>,
      <<"t","e","s","t"," ","d","e","m","o"," ","q","a"," ","d","e","v"," ","f","a","k","e"," ","m","o","c","k"," ","d","u","m","m","y"," ","w","r","o","n","g"," ","e","r","r","o","r"," ","f","a","i","l","e","d"," ","i","n","v","a","l","i","d"," ","r","e","j","e","c","t","e","d">> }
    \* windows of two words
    \cup { first \o <<" ">> \o second :
             first, second \in { <<"t","e","s","t">>, <<"s","a","m","p","l","e">>, <<"c","u","s","t","o","m","e","r">>, <<"L","I","V","E">>,
                                 <<"i","n","v","a","l","i","d">>, <<"i","d">> } }

TextInit ==
    /\ fn_input \in TextInputs
    /\ fn_output = None
    /\ ValIdle /\ MaskIdle /\ ConcIdle /\ PolIdle /\ ScanIdle /\ EngIdle

\* FPEStrategy().mask(fn_input, "IN_PHONE")
FpeMask ==
    /\ fn_output' = [name |-> "fpe_mask", ret |-> FPE_mask(NoneStr, fn_input, <<"I","N","_","P","H","O","N","E">>)]
    /\ UNCHANGED fn_input
    /\ UNCHANGED <<valVars, maskVars, concVars, polVars, scanVars, engVars>>

\* the base confidences, in hundredths, the context validator is given
BaseConfidences == {50, 60, 100}

\* keywords = extract_context_keywords(fn_input, 0, len(fn_input)), then
\* adjust_confidence_by_context(base_confidence, keywords)
AdjustConfidence(base_confidence) ==
    /\ fn_output' =
         LET keywords == extract_context_keywords(fn_input, 0, Len(fn_input))
         IN  [ name |-> "adjust_confidence_by_context",
               base_confidence |-> base_confidence,
               keywords |-> keywords,
               ret |-> adjust_confidence_by_context(base_confidence, keywords) ]
    /\ UNCHANGED fn_input
    /\ UNCHANGED <<valVars, maskVars, concVars, polVars, scanVars, engVars>>

TextNext ==
    \/ FpeMask
    \/ \E base_confidence \in BaseConfidences : AdjustConfidence(base_confidence)

\* the format-preserving strategy and the confidence adjustment called on
\* their own
SpecText == TextInit /\ [][TextNext]_vars

---------------------------------------------------------------------------
(* hawk_scanner/internals/entropy.py, code_analyzer.py,                     *)
(* validation_integration.py and scanner_engine.py: the heuristic scanner   *)

\* math.log2(k) in millionths, tabulated from math.log2
Log2Micro(k) ==
    CASE k = 1 -> 0
      [] k = 2 -> 1000000
      [] k = 3 -> 1584963
      [] k = 4 -> 2000000
      [] k = 5 -> 2321928
      [] k = 6 -> 2584963
      [] k = 7 -> 2807355
      [] k = 8 -> 3000000
      [] k = 9 -> 3169925
      [] k = 10 -> 3321928
      [] k = 11 -> 3459432
      [] k = 12 -> 3584963
      [] k = 13 -> 3700440
      [] k = 14 -> 3807355
      [] k = 15 -> 3906891
      [] k = 16 -> 4000000
      [] k = 17 -> 4087463
      [] k = 18 -> 4169925
      [] k = 19 -> 4247928
      [] k = 20 -> 4321928
      [] k = 21 -> 4392317
      [] k = 22 -> 4459432
      [] k = 23 -> 4523562
      [] k = 24 -> 4584963
      [] k = 25 -> 4643856
      [] k = 26 -> 4700440
      [] k = 27 -> 4754888
      [] k = 28 -> 4807355
      [] k = 29 -> 4857981
      [] k = 30 -> 4906891
      [] k = 31 -> 4954196
      [] k = 32 -> 5000000

\* the sum of count * log2(count) over the characters chars of data
RECURSIVE CountLogSum(_, _)
CountLogSum(data, chars) ==
    IF chars = {} THEN 0
    ELSE LET char == CHOOSE c \in chars : TRUE
         IN  CountChar(data, char) * Log2Micro(CountChar(data, char))
                 + CountLogSum(data, chars \ {char})

\* calculate_shannon_entropy(data) in millionths: with n = len(data) and c
\* the count of a character, -sum(c/n * log2(c/n)) = log2(n) - sum(c * log2(c)) / n
calculate_shannon_entropy(data) ==
    IF Len(data) = 0 THEN 0
    ELSE Log2Micro(Len(data))
           - (CountLogSum(data, Range(data)) \div Len(data))

SENSITIVE_KEYWORDS == {
    <<"a","p","i">>, <<"k","e","y">>, <<"s","e","c","r","e","t">>, <<"t","o","k","e","n">>, <<"a","c","c","e","s","s">>, <<"a","u","t","h">>,
    <<"p","a","s","s","w","o","r","d">>, <<"p","w","d">>, <<"p","a","s","s">>, <<"c","l","i","e","n","t","_","i","d">>, <<"c","l","i","e","n","t","_","s","e","c","r","e","t">>,
    <<"p","r","i","v","a","t","e">>, <<"c","r","e","d","e","n","t","i","a","l">> }

COMMENT_MARKERS == { <<"#">>, <<"/","/">>, <<"*">>, <<"-","-">>, <<"<","!","-","-">> }

\* ASSIGNMENT_PATTERN.search(line), ([a-zA-Z0-9_]+)\s*[:=]\s*["']: the start
\* of the first run of word characters that is followed by optional blanks,
\* a colon or an equals sign, optional blanks and a quote; 0 when there is none
AssignmentSearch(line) ==
    LET Blanks(a, b) == \A k \in a..b : line[k] = " "
        Assigns(i) ==
            \E a \in (WordEnd(line, i) + 1)..Len(line) :
                /\ Blanks(WordEnd(line, i) + 1, a - 1)
                /\ line[a] \in {":", "="}
                /\ \E b \in (a + 1)..Len(line) :
                      /\ Blanks(a + 1, b - 1)
                      /\ line[b] \in {"\"", "'"}
        starts == { i \in WordStarts(line) : Assigns(i) }
    IN  IF starts = {} THEN 0 ELSE CHOOSE i \in starts : \A j \in starts : i <= j

analyze_line_context(line) ==
    LET stripped == Strip(line)
        is_comment == \E marker \in COMMENT_MARKERS : StartsWith(stripped, marker)
        match == AssignmentSearch(line)
        variable_name == IF match = 0 THEN NoneStr
                         ELSE Lower(SubSeq(line, match, WordEnd(line, match)))
    IN  IF is_comment
        THEN [is_assignment |-> FALSE, variable_name |-> NoneStr, is_comment |-> TRUE,
              has_sensitive_keyword |-> FALSE]
        ELSE [is_assignment |-> match # 0, variable_name |-> variable_name,
              is_comment |-> FALSE,
              has_sensitive_keyword |->
                  match # 0 /\ \E keyword \in SENSITIVE_KEYWORDS :
                                   Contains(variable_name, keyword)]

\* VALIDATOR_MAP of validation_integration.py, each validator function
\* standing by its __name__
Scanner_VALIDATOR_MAP(key) ==
    CASE key \in {<<"a","a","d","h","a","a","r">>, <<"a","d","h","a","r">>, <<"i","n","_","a","a","d","h","a","a","r">>} -> "validate_aadhaar"
      [] key \in {<<"p","a","n">>, <<"i","n","_","p","a","n">>} -> "validate_pan"
      [] key \in {<<"c","r","e","d","i","t","_","c","a","r","d">>, <<"c","r","e","d","i","t","c","a","r","d">>, <<"i","n","_","c","r","e","d","i","t","_","c","a","r","d">>} -> "validate_credit_card"
      [] key \in {<<"e","m","a","i","l">>, <<"e","m","a","i","l","_","a","d","d","r","e","s","s">>} -> "validate_email"
      [] key \in {<<"p","h","o","n","e">>, <<"m","o","b","i","l","e">>, <<"i","n","_","p","h","o","n","e">>} -> "validate_indian_phone"
      [] key \in {<<"u","p","i">>, <<"i","n","_","u","p","i">>} -> "validate_upi"
      [] key \in {<<"i","f","s","c">>, <<"i","n","_","i","f","s","c">>} -> "validate_ifsc"
      [] key \in {<<"b","a","n","k","_","a","c","c","o","u","n","t">>, <<"i","n","_","b","a","n","k","_","a","c","c","o","u","n","t">>} -> "validate_bank_account"
      [] key \in {<<"p","a","s","s","p","o","r","t">>, <<"i","n","_","p","a","s","s","p","o","r","t">>} -> "validate_indian_passport"
      [] key \in {<<"v","o","t","e","r","_","i","d">>, <<"i","n","_","v","o","t","e","r","_","i","d">>} -> "validate_voter_id"
      [] key \in {<<"d","r","i","v","i","n","g","_","l","i","c","e","n","s","e">>, <<"d","r","i","v","i","n","g","l","i","c","e","n","s","e">>, <<"i","n","_","d","r","i","v","i","n","g","_","l","i","c","e","n","s","e">>}
            -> "validate_driving_license"
      [] OTHER -> "None"

get_validator_for_pattern(pattern_name) == Scanner_VALIDATOR_MAP(Lower(pattern_name))

\* validate_match(value, pattern_name): (is_valid, validation_method); the
\* validators raise on no string, so the 'error' return is left out
validate_match(value, pattern_name) ==
    LET validator == get_validator_for_pattern(pattern_name)
    IN  IF validator = "None" THEN [is_valid |-> TRUE, method |-> "no_validator"]
        ELSE [is_valid |-> CallValidator(validator, value), method |-> validator]

\* ContextAwareScanner.min_entropy_threshold, 3.0, in millionths
min_entropy_threshold == 3 * 1000000

\* ContextAwareScanner._calculate_confidence: (score, reasons), a reason
\* standing by its text without the figures interpolated into it; each step
\* adds to the score and to the reasons, and test data sets the score to 0
calculate_confidence(match, pattern_name, context) ==
    LET ent == calculate_shannon_entropy(match)
        low_entropy_punished ==
            Contains(Lower(pattern_name), <<"k","e","y">>) \/ Contains(Lower(pattern_name), <<"s","e","c","r","e","t">>)
        entropy_step ==
            IF ent > min_entropy_threshold
            THEN [added |-> 20, reasons |-> <<"High Entropy">>]
            ELSE IF low_entropy_punished
            THEN [added |-> -20, reasons |-> <<"Low Entropy">>]
            ELSE [added |-> 0, reasons |-> <<>>]
        assignment_step ==
            IF context.is_assignment
            THEN IF context.has_sensitive_keyword
                 THEN [added |-> 30, reasons |-> <<"Sensitive Variable Assignment">>]
                 ELSE [added |-> 10, reasons |-> <<"Variable Assignment">>]
            ELSE [added |-> 0, reasons |-> <<>>]
        comment_step ==
            IF context.is_comment
            THEN [added |-> -30, reasons |-> <<"In Comment">>]
            ELSE [added |-> 0, reasons |-> <<>>]
        is_test_data_value ==
            \/ Contains(Lower(match), <<"e","x","a","m","p","l","e">>)
            \/ Contains(Lower(match), <<"t","e","s","t">>)
            \/ Contains(match, <<"1","2","3","4","5">>)
        score ==
            IF is_test_data_value THEN 0
            ELSE 50 + entropy_step.added + assignment_step.added + comment_step.added
    IN  [score |-> Max(0, Min(100, score)),
         reasons |-> entropy_step.reasons \o assignment_step.reasons \o comment_step.reasons
                       \o (IF is_test_data_value THEN <<"Test Data Value">> ELSE <<>>)]

\* content.splitlines(), for lines ended by "\n"
splitlines(content) ==
    LET pieces == Split(content, "\n")
    IN  IF Len(content) = 0 THEN <<>>
        ELSE IF content[Len(content)] = "\n" THEN SubSeq(pieces, 1, Len(pieces) - 1)
        ELSE pieces

\* re.compile(re.escape(literal), re.IGNORECASE).finditer(line), from
\* position pos on: the matched texts, left to right, without overlap
RECURSIVE finditer(_, _, _)
finditer(literal, line, pos) ==
    IF pos + Len(literal) > Len(line) THEN <<>>
    ELSE IF Lower(Slice(line, pos, pos + Len(literal))) = Lower(literal)
    THEN <<Slice(line, pos, pos + Len(literal))>> \o finditer(literal, line, pos + Len(literal))
    ELSE finditer(literal, line, pos + 1)

RECURSIVE Flatten(_)
Flatten(seqs) == IF seqs = <<>> THEN <<>> ELSE Head(seqs) \o Flatten(Tail(seqs))

\* the body of scan's innermost loop for one match: the score
\* _calculate_confidence gave it, what validate_match returned, the score
\* after the validation and the finding appended when the score is 50 or more
ScoreMatch(match_text, pattern_name, line, line_idx, source) ==
    LET Scored(confidence, validated) ==
            LET final ==
                    IF validated.is_valid
                    THEN [score |-> 100,
                          reasons |-> Append(confidence.reasons, "SDK Validation Passed")]
                    ELSE IF validated.method = "no_validator" THEN confidence
                    ELSE IF validated.method = "scope_rejected" THEN confidence
                    ELSE [score |-> 0,
                          reasons |-> Append(confidence.reasons, "SDK Validation Failed")]
            IN  [ match_text |-> match_text, pattern_name |-> pattern_name,
                  line_number |-> line_idx + 1,
                  heuristic_score |-> confidence.score,
                  is_valid_format |-> validated.is_valid, method |-> validated.method,
                  score |-> final.score,
                  finding |-> [ data_source |-> source, pattern_name |-> pattern_name,
                                matches |-> <<match_text>>, sample_text |-> Take(line, 100),
                                line_number |-> line_idx + 1,
                                confidence_score |-> final.score,
                                confidence_reasons |-> final.reasons,
                                validation_method |-> validated.method ] ]
    IN  CHOOSE scored \in
            { Scored(calculate_confidence(match_text, pattern_name, context),
                     validate_match(match_text, pattern_name)) :
                  context \in { analyze_line_context(line) } } : TRUE

\* ContextAwareScanner.scan(content, patterns, source), patterns being the
\* items of the dict in order, each a name and the literal its regex matches:
\* every match with its scores, and the findings returned
scan(content, patterns, source) ==
    LET lines == splitlines(content)
        LineMatches(pattern, line_idx) ==
            CHOOSE scored \in
                { [m \in DOMAIN matches |->
                      ScoreMatch(matches[m], pattern.pattern_name, line, line_idx, source)] :
                    line \in { lines[line_idx + 1] },
                    matches \in { finditer(pattern.literal, lines[line_idx + 1], 0) } } : TRUE
        Returned(scored) ==
            LET reported == SelectSeq(scored, LAMBDA s : s.score >= 50)
            IN  [scored |-> scored,
                 findings |-> [k \in DOMAIN reported |-> reported[k].finding]]
    IN  CHOOSE returned \in
            { Returned(scored) :
                scored \in { Flatten([p \in DOMAIN patterns |->
                                Flatten([l \in DOMAIN lines |->
                                    LineMatches(patterns[p], l - 1)])]) } } : TRUE

\* the lines scanned
ScanLines == {
    <<"a","p","i","_","k","e","y"," ","="," ","\"","e","x","a","m","p","l","e","_","k","e","y","_","v","a","l","u","e","_","1","2","3","4","5","\"">>,
    <<"#"," ","o","l","d"," ","t","e","s","t","@","t","e","s","t",".","c","o","m">>,
    <<"m","a","i","l"," ","a","@","b",".","c","o">>,
    <<"p","h","o","n","e"," ","9","1","2","3","4","5","6","7","8","9"," ","o","r"," ","9","9","9","9","9","9","9","9","9","9">>,
    <<"t","o","k","e","n"," ","="," ","\"","Z","x","9","Q","w","3","E","r","7","T","y","1","\"">>,
    <<"n","a","m","e"," ","="," ","\"","b","o","b","\"">>,
    <<"p","a","n",":"," ","'","A","A","A","P","C","1","2","3","4","O","'"," ","o","r"," ","A","A","A","P","C","1","2","3","4","D">>,
    <<"p","a","s","s","w","o","r","d"," ","="," ","\"","p","a","s","s","w","o","r","d","1","2","3","\"">>,
    <<"/","/"," ","k","e","y"," ","="," ","\"","t","e","s","t","k","e","y","\"">>,
    <<"i","d"," ","1","2","3","4","5","6","7","8"," ","9","1","2","3","4","5","6","7","8","9">> }

\* the patterns passed: a name and the literal its regex matches
ScanPatterns ==
    LET Pattern(pattern_name, literal) == [pattern_name |-> pattern_name, literal |-> literal]
    IN  { Pattern(<<"G","E","N","E","R","I","C","_","K","E","Y">>, <<"e","x","a","m","p","l","e","_","k","e","y","_","v","a","l","u","e","_","1","2","3","4","5">>),
          Pattern(<<"E","m","a","i","l">>, <<"a","@","b",".","c","o">>), Pattern(<<"e","m","a","i","l">>, <<"t","e","s","t","@","t","e","s","t",".","c","o","m">>),
          Pattern(<<"P","h","o","n","e">>, <<"9","1","2","3","4","5","6","7","8","9">>), Pattern(<<"p","h","o","n","e">>, <<"9","9","9","9","9","9","9","9","9","9">>),
          Pattern(<<"C","o","n","t","a","c","t">>, <<"9","1","2","3","4","5","6","7","8","9">>),
          Pattern(<<"S","E","C","R","E","T","_","T","O","K","E","N">>, <<"Z","x","9","Q","w","3","E","r","7","T","y","1">>), Pattern(<<"N","a","m","e">>, <<"b","o","b">>),
          Pattern(<<"P","A","N">>, <<"A","A","A","P","C","1","2","3","4","O">>), Pattern(<<"p","a","n">>, <<"A","A","A","P","C","1","2","3","4","D">>),
          Pattern(<<"S","E","C","R","E","T","_","P","A","S","S","W","O","R","D">>, <<"p","a","s","s","w","o","r","d","1","2","3">>),
          Pattern(<<"T","e","s","t","_","K","e","y">>, <<"t","e","s","t","k","e","y">>), Pattern(<<"N","u","m","b","e","r">>, <<"1","2","3","4","5","6","7","8">>) }

SCAN_SOURCE == "text"

ScanInit ==
    \* one line, or two lines of which the first holds a comment
    /\ \/ scan_content \in ScanLines
       \/ scan_content \in { a \o <<"\n">> \o b \o <<"\n">> :
                                a \in { line \in ScanLines : analyze_line_context(line).is_comment },
                                b \in ScanLines }
    \* one pattern, or two patterns of which the first has a validator
    /\ \/ \E p \in ScanPatterns : scan_patterns = <<p>>
       \/ \E p, q \in ScanPatterns :
             /\ p # q
             /\ p.pattern_name \in {<<"E","m","a","i","l">>, <<"P","h","o","n","e">>}
             /\ scan_patterns = <<p, q>>
    /\ scan_scored = << >>
    /\ scan_findings = << >>
    /\ ValIdle /\ MaskIdle /\ ConcIdle /\ PolIdle /\ FnIdle /\ EngIdle

\* scanner.scan(scan_content, patterns, source)
Scan ==
    /\ \E r \in { scan(scan_content, scan_patterns, SCAN_SOURCE) } :
          /\ scan_scored' = r.scored
          /\ scan_findings' = r.findings
    /\ UNCHANGED <<scan_content, scan_patterns>>
    /\ UNCHANGED <<valVars, maskVars, concVars, polVars, fnVars, engVars>>

ScanNext == Scan

\* the heuristic scanner
SpecScan == ScanInit /\ [][ScanNext]_vars

---------------------------------------------------------------------------
(* sdk/engine.py: SharedAnalyzerEngine.get_engine called by several        *)
(* scanning threads. get_engine takes no lock; a thread can be preempted    *)
(* between its test of _instance, the initialization, the store into        *)
(* _instance and the read of _instance it returns.                          *)

\* how many threads call get_engine
MaxThreads == 3

Threads == 1..MaxThreads

EngInit ==
    \* _instance: Optional[AnalyzerEngine] = None
    /\ engine_instance = None
    /\ engines_initialized = 0
    /\ engine_pc = [t \in Threads |-> "call"]
    /\ engine_built = [t \in Threads |-> None]
    /\ engine_returned = [t \in Threads |-> None]
    /\ ValIdle /\ MaskIdle /\ ConcIdle /\ PolIdle /\ FnIdle /\ ScanIdle

\* if cls._instance is None
TestInstance(t) ==
    /\ engine_pc[t] = "call"
    /\ engine_pc' = [engine_pc EXCEPT ![t] =
                        IF engine_instance = None THEN "initialize" ELSE "return"]
    /\ UNCHANGED <<engine_instance, engines_initialized, engine_built, engine_returned>>
    /\ UNCHANGED <<valVars, maskVars, concVars, polVars, fnVars, scanVars>>

\* cls._initialize_engine(config_path), with the default configuration: a
\* new AnalyzerEngine is built, the k-th one standing as [engine |-> k]
InitializeEngine(t) ==
    /\ engine_pc[t] = "initialize"
    /\ engines_initialized' = engines_initialized + 1
    /\ engine_built' = [engine_built EXCEPT ![t] = [engine |-> engines_initialized + 1]]
    /\ engine_pc' = [engine_pc EXCEPT ![t] = "store"]
    /\ UNCHANGED <<engine_instance, engine_returned>>
    /\ UNCHANGED <<valVars, maskVars, concVars, polVars, fnVars, scanVars>>

\* cls._instance = <the engine built>
StoreInstance(t) ==
    /\ engine_pc[t] = "store"
    /\ engine_instance' = engine_built[t]
    /\ engine_pc' = [engine_pc EXCEPT ![t] = "return"]
    /\ UNCHANGED <<engines_initialized, engine_built, engine_returned>>
    /\ UNCHANGED <<valVars, maskVars, concVars, polVars, fnVars, scanVars>>

\* return cls._instance
ReturnInstance(t) ==
    /\ engine_pc[t] = "return"
    /\ engine_returned' = [engine_returned EXCEPT ![t] = engine_instance]
    /\ engine_pc' = [engine_pc EXCEPT ![t] = "done"]
    /\ UNCHANGED <<engine_instance, engines_initialized, engine_built>>
    /\ UNCHANGED <<valVars, maskVars, concVars, polVars, fnVars, scanVars>>

EngNext ==
    \/ \E t \in Threads : TestInstance(t)
    \/ \E t \in Threads : InitializeEngine(t)
    \/ \E t \in Threads : StoreInstance(t)
    \/ \E t \in Threads : ReturnInstance(t)

\* the threads calling get_engine
SpecEngine == EngInit /\ [][EngNext]_vars
---------------------------------------------------------------------------
(* Properties of the validation pipeline, checked under SpecVal.             *)

Validated == last_call = "validate_and_create_finding"

SerializedText(finding) ==
    LET d == to_dict(finding)
    IN  { d.pii_type, d.ml_entity_type, d.context_excerpt }
            \cup Range(d.context_keywords)

\* C2: once validate_and_create_finding has run, no serialized field of the
\* finding it returned and no message it printed contains the matched value.
C2_RawValueNeverLeaves ==
    Validated =>
        /\ verified # None =>
              \A f \in SerializedText(verified) : ~Contains(f, matched(presidio_result))
        /\ \A i \in DOMAIN printed :
              ~Contains(printed[i].text, matched(presidio_result))

\* C3: for a candidate that passes the scope gate the validator registered
\* for its type is run, and a finding is emitted only if that validator
\* accepted the value, so that validators_passed is not empty.
C3_ValidatorRunAndPassed ==
    (Validated /\ is_allowed_pii(presidio_result.entity_type)) =>
        /\ validator_calls = 1
        /\ verified # None =>
              /\ Len(verified.validators_passed) > 0
              /\ CallValidator(VALIDATOR_MAP(Strip(Upper(presidio_result.entity_type))),
                               matched(presidio_result))

\* C4: validate_and_create_finding emits no finding, for any of the 11 types,
\* whose value is flagged by is_dummy_data.
C4_NoDummyFinding ==
    (Validated /\ presidio_result.entity_type \in LOCKED_PII_TYPES /\ verified # None)
        => ~is_dummy_data(matched(presidio_result))


\* C15: the finding validate_and_create_finding returns for a candidate is
\* the one it returns for that candidate when no other call of the pipeline
\* was made before: it depends on the candidate only, whatever calls of the
\* pipeline's public functions preceded it
C15_ValidationIsStateless ==
    Validated
        => verified = validate_and_create_finding(presidio_result, presidio_result.text,
                                                  SOURCE_INFO, PATTERN_NAME, {}).finding

\* C17: the 12-digit value 999911112226 passes the length, first-digit and
\* dummy checks and its Verhoeff checksum is accepted: validate_aadhaar returns
\* true for it and an IN_AADHAAR candidate carrying it yields a finding
C17_DocumentedAadhaarAccepted ==
    ( /\ Validated
      /\ presidio_result.entity_type = <<"I","N","_","A","A","D","H","A","A","R">>
      /\ matched(presidio_result) = <<"9","9","9","9","1","1","1","1","2","2","2","6">> )
    => /\ Len(OnlyDigits(matched(presidio_result))) = 12
       /\ matched(presidio_result)[1] \notin {"0", "1"}
       /\ ~is_dummy_data(matched(presidio_result))
       /\ Verhoeff_validate(matched(presidio_result))
       /\ validate_aadhaar(matched(presidio_result))
       /\ verified # None

---------------------------------------------------------------------------
(* The masking adapters: properties                                          *)

\* the latest call was of the method named
Called(name) == last_op # None /\ last_op.name = name

\* C5: with backups enabled and not in dry-run, the backup mask_findings
\* reports holds the target as it was before the call wrote to it, and when
\* create_backup yields no backup id the call returns Failed with
\* masked_count 0 and leaves the target exactly as it was
C5_BackupFailureIsFailed ==
    LET backup_location == last_op.backup_location
        \* what the backup location holds, None when it names no backup
        backup ==
            IF adapter = "filesystem"
            THEN IF backup_location \in DOMAIN fs_backups THEN fs_backups[backup_location]
                 ELSE NoneStr
            ELSE IF backup_location \in DOMAIN pg_db THEN pg_db[backup_location] ELSE None
    IN  (Called("mask_findings") /\ backup_enabled /\ ~dry_run)
            => IF backup_location = NoneStr
               THEN /\ ~last_op.raised
                    /\ last_op.ret.status = MaskingStatus.FAILED
                    /\ last_op.ret.masked_count = 0
                    /\ last_op.after = last_op.before
               ELSE backup = last_op.before

\* the mask_findings call that rollback(b, X) undoes: the latest one, made on
\* X with backups enabled and not in dry-run, which returned b, rollback being
\* the first call after it
RolledBackCall ==
    /\ Called("rollback")
    /\ last_mask # None
    /\ last_mask.since = "rollback"
    /\ backup_enabled /\ ~dry_run
    /\ ~last_mask.op.raised
    /\ last_mask.op.backup_location # NoneStr
    /\ last_op.backup_location = last_mask.op.backup_location
    /\ last_op.target = last_mask.op.target

C7_AllOrNothing ==
    LET findings == last_op.findings
        \* an update raises: the strategy raises on the finding's value, or the
        \* statement names a table or a column that does not exist
        update_raises ==
            \E i \in DOMAIN findings :
                \/ mask(last_op.masking_strategy, findings[i].value, findings[i].pii_type)
                       = Raises
                \/ ~Resolves(pg_db, TableOf(findings[i].location, last_op.target),
                             ColumnOf(findings[i].location))
    IN  (Called("mask_findings") /\ adapter = "postgresql" /\ ~dry_run
            /\ ~last_op.raised /\ last_op.ret.error_message # "Failed to create backup"
            /\ update_raises)
            => /\ last_op.ret.status = MaskingStatus.FAILED
               /\ last_op.after = last_op.before

\* C8: verify_masking returns false whenever the target holds the raw value
\* of at least one of the findings
C8_VerifyFindsRawValue ==
    LET findings == last_op.findings
        target == last_op.after
        \* the raw value is in the file's content, or in a cell of the table
        raw_value_present ==
            \E i \in DOMAIN findings :
                /\ findings[i].value # NoneStr
                /\ IF adapter = "filesystem"
                   THEN target # NoneStr /\ Contains(target, findings[i].value)
                   ELSE /\ target # None
                        /\ \E r \in DOMAIN target.rows, c \in target.columns :
                              Contains(target.rows[r][c], findings[i].value)
    IN  (Called("verify_masking") /\ raw_value_present)
            => ~last_op.raised /\ last_op.ret = FALSE

\* C9: a successful rollback puts the masking operation it undoes in
\* RolledBack
C9_RollbackSetsRolledBack ==
    (RolledBackCall /\ ~last_op.raised /\ last_op.ret = TRUE)
        => last_mask.op.ret.status = MaskingStatus.ROLLED_BACK

\* C10: when two mask_findings calls that ran concurrently on the same file
\* have both returned, the file holds what running them one after the other
\* in some order leaves
C10_Serializable ==
    LET file == conc_call["A"].source_location
        \* what the two calls leave when the first returns before the second
        \* starts
        Serial(first, second) ==
            MaskedContent(conc_call[second],
                          MaskedContent(conc_call[first], InitialFiles[file]))
    IN  (DOMAIN pc = Procs /\ \A p \in Procs : pc[p] = "done")
            => fs_files[file] \in {Serial("A", "B"), Serial("B", "A")}

\* C11: in dry-run mode mask_findings (create_backup within it) and rollback
\* leave the files, the backups and the tables as they were, and the total,
\* masked and failed counts mask_findings returns are those the same call,
\* made in the same state by an adapter not in dry-run mode, returns
C11_DryRunReportsWouldBeCounts ==
    [][ LET call == last_op'
            n == Len(call.findings)
            source_location == call.target
            Counts(total_findings, masked_count, failed_count) ==
                <<total_findings, masked_count, failed_count>>
            \* the real run of the filesystem adapter
            masked == mask_content(FileExt(source_location), fs_files[source_location],
                                   call.findings, call.masking_strategy)
            fs_counts ==
                IF source_location \notin DOMAIN fs_files THEN Counts(n, 0, n)
                ELSE IF backup_enabled /\ ~backup_dir_writable THEN Counts(n, 0, n)
                ELSE IF masked.error # "None"
                THEN Counts(n, masked.masked_count, n - masked.masked_count)
                ELSE Counts(n, masked.masked_count, masked.failed_count)
            \* the real run of the PostgreSQL adapter, database reachable
            backup_table == source_location \o <<"_","b","a","c","k","u","p","_">> \o Timestamp(clock)
            backed_up == /\ ~pg_aborted
                         /\ source_location \in DOMAIN pg_db
                         /\ backup_table \notin DOMAIN pg_db
            applied == PgApply(IF backup_enabled
                               THEN Put(pg_db, backup_table, pg_db[source_location])
                               ELSE pg_db,
                               IF backup_enabled THEN FALSE ELSE pg_aborted,
                               GroupByLocation(call.findings), call.masking_strategy,
                               source_location, 1, 0, 0)
            pg_counts ==
                IF backup_enabled /\ ~backed_up THEN Counts(n, 0, n)
                ELSE Counts(n, applied.masked_count, applied.failed_count)
        IN  (dry_run /\ n_ops' = n_ops + 1 /\ call.name \in {"mask_findings", "rollback"})
                => /\ fs_files' = fs_files
                   /\ fs_backups' = fs_backups
                   /\ pg_db' = pg_db
                   /\ (call.name = "mask_findings" /\ (adapter = "filesystem" \/ db_up))
                         => /\ ~call.raised
                            /\ Counts(call.ret.total_findings, call.ret.masked_count,
                                      call.ret.failed_count)
                                 = IF adapter = "filesystem" THEN fs_counts ELSE pg_counts
      ]_vars

\* C12: when mask_findings applied some findings of a batch and failed to
\* apply others, the result is Failed if the mode of the policy in force is
\* Strict, and Completed (with failed_count > 0) if it is Lenient
C12_PolicyModeDecidesStatus ==
    (/\ Called("mask_findings")
     /\ ~dry_run
     /\ ~last_op.raised
     /\ last_op.ret.masked_count > 0
     /\ last_op.ret.failed_count > 0)
        => IF policy.mode = PolicyMode.STRICT
           THEN last_op.ret.status = MaskingStatus.FAILED
           ELSE last_op.ret.status = MaskingStatus.COMPLETED

\* C13: no call of mask_findings (create_backup within it), rollback or
\* verify_masking lets an exception escape: each returns its structured
\* result, also when the database connection cannot be opened
C13_NoExceptionEscapes ==
    (last_op # None /\ last_op.name \in {"mask_findings", "rollback", "verify_masking"})
        => ~last_op.raised

---------------------------------------------------------------------------
(* The policy engine: properties                                             *)

\* C14: a policy that breaks a rule of validate() (a strategy name outside
\* REDACT/PARTIAL/TOKENIZE/FPE, negative retention days, max findings <= 0)
\* is never the policy a caller holds when get_masking_strategy_instance
\* returns a strategy or should_mask_pii_type returns a decision
C14_ValidatedBeforeUse ==
    (/\ pol_op # None
     /\ pol_op.name \in {"get_masking_strategy_instance", "should_mask_pii_type"}
     /\ pol_op.raised = "None")
        => Policy_validate(policy) = {}

\* C30: a policy saved and loaded again has the mode, the strategies, the
\* exclusions, the backup settings, the max-findings cap and the secret key
\* of the policy saved, and the strategy it gives for a PII type masks a
\* value as the strategy of the policy saved does
C30_SaveAndReloadPreserves ==
    (pol_op # None /\ pol_op.name = "save_and_reload")
    => /\ pol_op.raised = "None"
       /\ policy.mode = pol_op.saved.mode
       /\ policy.pii_type_strategies = pol_op.saved.pii_type_strategies
       /\ policy.default_strategy = pol_op.saved.default_strategy
       /\ policy.excluded_assets = pol_op.saved.excluded_assets
       /\ policy.excluded_pii_types = pol_op.saved.excluded_pii_types
       /\ policy.backup_enabled = pol_op.saved.backup_enabled
       /\ policy.backup_retention_days = pol_op.saved.backup_retention_days
       /\ policy.max_findings_per_run = pol_op.saved.max_findings_per_run
       /\ policy.secret_key = pol_op.saved.secret_key
       /\ \A pii_type \in {<<"I","N","_","P","A","N">>, <<"I","N","_","P","H","O","N","E">>, <<"E","M","A","I","L","_","A","D","D","R","E","S","S">>} :
             Policy_mask(policy, POLICY_VALUE, pii_type)
                 = Policy_mask(pol_op.saved, POLICY_VALUE, pii_type)

\* ---------------------------------------------------------------------------
\* Claims about the validators called on their own (SpecFn)
\* ---------------------------------------------------------------------------

\* C16: for every string of digits s, s followed by the check digit the
\* Verhoeff generator computes for s is accepted by the Verhoeff validator, in
\* the scanner's implementation and in the backend's
C16_CheckDigitRoundTrip ==
    ( /\ fn_output # None
      /\ fn_output.name = "generate_check_digit"
      /\ IsDigitStr(fn_input) )
    => /\ fn_output.scanner # Raises
       /\ fn_output.scanner_validate
       /\ fn_output.backend # Raises
       /\ fn_output.backend_validate

\* C16 witness: the check digit of the 11 digits 99991111222 was generated, it
\* is 1 in both implementations, and both accept 999911112221
C16_Witness ==
    /\ fn_input = <<"9","9","9","9","1","1","1","1","2","2","2">>
    /\ fn_output # None
    /\ fn_output.name = "generate_check_digit"
    /\ fn_output.scanner = <<"1">>
    /\ fn_output.backend = <<"1">>
    /\ fn_output.scanner_validate
    /\ fn_output.backend_validate

C20_BlacklistedDomainRejected ==
    ( /\ fn_output # None
      /\ fn_output.name = "validate_email"
      /\ is_blacklisted_domain(fn_input) )
    => ~fn_output.ret

\* ---------------------------------------------------------------------------
\* Claims about the four strategies in the adapters (SpecStrategies)
\* ---------------------------------------------------------------------------

\* C21: after a real mask_findings on a target returned Completed with
\* failed_count 0, verify_masking on the same target and findings returns
\* true, whichever of the four strategies was used, provided the raw values
\* occurred in the target only at the findings' locations
C21_VerifyAfterCompletedMask ==
    LET findings == last_op.findings
        before == last_mask.op.before
        \* a text file: every finding has a span, the span holds the finding's
        \* value, and outside the spans no finding's value occurs
        text_at_locations_only ==
            /\ \A k \in DOMAIN findings :
                  /\ findings[k].value # NoneStr
                  /\ findings[k].start_pos # NonePos /\ findings[k].end_pos # NonePos
                  /\ Slice(before, findings[k].start_pos, findings[k].end_pos)
                         = findings[k].value
            /\ LET outside == [ i \in DOMAIN before |->
                                  IF \E k \in DOMAIN findings :
                                        findings[k].start_pos < i /\ i <= findings[k].end_pos
                                  THEN "#" ELSE before[i] ]
               IN  \A k \in DOMAIN findings : ~Contains(outside, findings[k].value)
        \* a CSV file: every finding names a cell that holds its value, and no
        \* other cell holds a finding's value
        csv_at_locations_only ==
            LET table == CsvRead(before)
                Row(k) == ParseInt(Split(findings[k].location, "_")[2]) + 1
                Col(k) == LET parts == Split(findings[k].location, "_")
                          IN  FirstIndex(table.fieldnames,
                                         Join(SubSeq(parts, 4, Len(parts)), <<"_">>))
            IN  /\ \A k \in DOMAIN findings :
                      /\ findings[k].value # NoneStr
                      /\ Len(Split(findings[k].location, "_")) >= 4
                      /\ IsDigitStr(Split(findings[k].location, "_")[2])
                      /\ Row(k) \in DOMAIN table.rows
                      /\ Col(k) \in DOMAIN table.rows[Row(k)]
                      /\ table.rows[Row(k)][Col(k)] = findings[k].value
                /\ \A r \in DOMAIN table.rows : \A c \in DOMAIN table.rows[r] :
                      (\E k \in DOMAIN findings :
                           Contains(table.rows[r][c], findings[k].value))
                          => \E k \in DOMAIN findings : Row(k) = r /\ Col(k) = c
        \* a table: every finding names a column of it, its value is the whole
        \* of a cell of that column, and it occurs in no cell otherwise
        table_at_locations_only ==
            \A k \in DOMAIN findings :
                /\ findings[k].value # NoneStr
                /\ TableOf(findings[k].location, last_op.target) = last_op.target
                /\ Resolves(pg_db, last_op.target, ColumnOf(findings[k].location))
                /\ \E r \in DOMAIN before.rows :
                      before.rows[r][ColumnOf(findings[k].location)] = findings[k].value
                /\ \A r \in DOMAIN before.rows : \A c \in before.columns :
                      Contains(before.rows[r][c], findings[k].value)
                          => /\ c = ColumnOf(findings[k].location)
                             /\ before.rows[r][c] = findings[k].value
    IN  ( /\ Called("verify_masking")
          /\ last_mask # None
          /\ last_mask.since = "verify_masking"
          /\ ~dry_run
          /\ ~last_mask.op.raised
          /\ last_mask.op.ret.status = MaskingStatus.COMPLETED
          /\ last_mask.op.ret.failed_count = 0
          /\ last_op.target = last_mask.op.target
          /\ last_op.findings = last_mask.op.findings
          /\ IF adapter = "postgresql" THEN table_at_locations_only
             ELSE IF FileExt(last_op.target) = <<".","c","s","v">> THEN csv_at_locations_only
             ELSE text_at_locations_only )
        => ~last_op.raised /\ last_op.ret = TRUE

\* text with the spans of the findings numbered in todo, all at or after
\* position pos, replaced from left to right: a finding's span gives way to
\* its masked value, or stays when the strategy raises on the value
RECURSIVE SpansReplaced(_, _, _, _, _)
SpansReplaced(text, findings, masking_strategy, todo, pos) ==
    IF todo = {} THEN From(text, pos)
    ELSE LET k == CHOOSE k \in todo :
                    \A l \in todo : findings[k].start_pos <= findings[l].start_pos
             masked_value == mask(masking_strategy, findings[k].value, findings[k].pii_type)
         IN  Slice(text, pos, findings[k].start_pos)
                 \o ( IF masked_value = Raises
                      THEN Slice(text, findings[k].start_pos, findings[k].end_pos)
                      ELSE masked_value )
                 \o SpansReplaced(text, findings, masking_strategy, todo \ {k},
                                  findings[k].end_pos)

\* C25: whatever the order of the findings passed, a real mask_findings on a
\* text file whose findings have spans of the text that do not overlap one
\* another writes the text it read with each span replaced by the finding's
\* masked value and every character outside the spans unchanged
C25_TextSpansReplaced ==
    LET findings == last_op.findings
        spans == { k \in DOMAIN findings :
                     findings[k].start_pos # NonePos /\ findings[k].end_pos # NonePos }
    IN  ( /\ Called("mask_findings")
          /\ adapter = "filesystem"
          /\ FileExt(last_op.target) # <<".","c","s","v">>
          /\ ~dry_run
          /\ last_op.ret.status = MaskingStatus.COMPLETED
          /\ \A k \in spans :
                /\ 0 <= findings[k].start_pos
                /\ findings[k].start_pos <= findings[k].end_pos
                /\ findings[k].end_pos <= Len(last_op.before)
          /\ \A k, l \in spans :
                k # l => \/ findings[k].end_pos <= findings[l].start_pos
                         \/ findings[l].end_pos <= findings[k].start_pos )
        => /\ last_op.after = SpansReplaced(last_op.before, findings,
                                            last_op.masking_strategy, spans, 0)
           /\ fs_files[last_op.target] = last_op.after

\* C25 witness: the findings at 5-15, 30-33 and 0-4, passed in that order,
\* were redacted in the text "call 9123456789 or 9988776655 now"
C25_Witness ==
    /\ Called("mask_findings")
    /\ last_op.target = TEXT_FILE
    /\ last_op.masking_strategy = "REDACT"
    /\ Len(last_op.findings) = 3
    /\ last_op.findings[1].start_pos = 5
    /\ last_op.findings[2].start_pos = 30
    /\ last_op.findings[3].start_pos = 0
    /\ last_op.before = <<"c","a","l","l"," ","9","1","2","3","4","5","6","7","8","9"," ","o","r"," ","9","9","8","8","7","7","6","6","5","5"," ","n","o","w">>
    /\ last_op.after = <<"[","R","E","D","A","C","T","E","D","]"," ","[","R","E","D","A","C","T","E","D","]"," ","o","r"," ","9","9","8","8","7","7","6","6","5","5"," ","[","R","E","D","A","C","T","E","D","]">>

\* C28: the MaskingResult a mask_findings call returns accounts for each
\* finding passed exactly once: total_findings is the number of findings,
\* masked_count is from 0 to total_findings, failed_count is not negative,
\* and masked_count + failed_count = total_findings
C28_EveryFindingCountedOnce ==
    (Called("mask_findings") /\ ~last_op.raised)
    => LET result == last_op.ret
       IN  /\ result.total_findings = Len(last_op.findings)
           /\ 0 <= result.masked_count
           /\ result.masked_count <= result.total_findings
           /\ result.failed_count >= 0
           /\ result.masked_count + result.failed_count = result.total_findings

\* C29: the backup location a real mask_findings call gets from create_backup
\* names no backup made earlier, and no step changes the content of a backup
\* made earlier, so that a rollback to an earlier backup id restores what
\* was captured when it was taken
C29_BackupsDistinctAndKept ==
    [][ /\ ( /\ n_ops' = n_ops + 1
             /\ last_op'.name = "mask_findings"
             /\ backup_enabled /\ ~dry_run
             /\ last_op'.backup_location # NoneStr )
           => last_op'.backup_location
                  \notin (IF adapter = "filesystem" THEN DOMAIN fs_backups ELSE DOMAIN pg_db)
        /\ \A b \in DOMAIN fs_backups :
              b \in DOMAIN fs_backups' /\ fs_backups'[b] = fs_backups[b]
        /\ \A t \in DOMAIN pg_db \ {USERS} :
              t \in DOMAIN pg_db' /\ pg_db'[t] = pg_db[t]
      ]_vars
---------------------------------------------------------------------------
(* The confidence a finding carries.                                        *)

\* C22: the confidence of the finding validate_and_create_finding emits is
\* the adjusted confidence the context engine returned for the candidate, a
\* value from 0.5 to 1, and the confidence in the finding's serialized form
\* is that value too, not the recognizer's score
C22_EmittedConfidenceIsAdjusted ==
    (Validated /\ verified # None)
    => LET ctx == validate_with_context(matched(presidio_result), presidio_result.entity_type,
                                        presidio_result.text, presidio_result.start,
                                        presidio_result.end, presidio_result.score,
                                        exclusion_list)
           serialized == to_dict(verified)
       IN  /\ verified.confidence_score = ctx.adjusted_confidence
           /\ ctx.adjusted_confidence >= ConfOne \div 2
           /\ ctx.adjusted_confidence <= ConfOne
           /\ ScoreToConf(serialized.ml_confidence) = ctx.adjusted_confidence
---------------------------------------------------------------------------
(* The format-preserving strategy and the confidence adjustment, called on  *)
(* their own.                                                               *)

\* C23: the format-preserving strategy returns, for every value, a string of
\* the value's length with a digit where the value has a digit, an upper-case
\* letter where it has one, a lower-case letter where it has one, and every
\* other character unchanged at its position
C23_FormatPreserved ==
    (fn_output # None /\ fn_output.name = "fpe_mask")
    => /\ Len(fn_output.ret) = Len(fn_input)
       /\ \A i \in DOMAIN fn_input :
            LET char == fn_input[i]
                out == fn_output.ret[i]
            IN  /\ IsDigitChar(char) => IsDigitChar(out)
                /\ IsUpperChar(char) => IsUpperChar(out)
                /\ IsLowerChar(char) => IsLowerChar(out)
                /\ ~IsAlnumChar(char) => out = char

\* the product of one factor, in hundredths, per keyword occurrence: 85 for a
\* test keyword, 105 for a production keyword, 75 for a negative keyword
RECURSIVE FactorPerOccurrence(_)
FactorPerOccurrence(keywords) ==
    IF keywords = <<>> THEN 1
    ELSE ( IF Head(keywords) \in TEST_KEYWORDS THEN 85
           ELSE IF Head(keywords) \in PRODUCTION_KEYWORDS THEN 105
           ELSE 75 )
         * FactorPerOccurrence(Tail(keywords))

RECURSIVE Hundreds(_)
Hundreds(k) == IF k = 0 THEN 1 ELSE 100 * Hundreds(k - 1)

\* C24: the adjusted confidence is the base confidence times one factor per
\* keyword occurrence, 0.85 for a test keyword, 1.05 for a production keyword
\* and 0.75 for a negative keyword, clamped to [0,1]; stated for windows of up
\* to three keyword occurrences, where the product is a whole number of
\* 100^-4
C24_OneFactorPerOccurrence ==
    ( /\ fn_output # None
      /\ fn_output.name = "adjust_confidence_by_context"
      /\ Len(fn_output.keywords) <= 3 )
    => LET k == Len(fn_output.keywords)
           product == fn_output.base_confidence * FactorPerOccurrence(fn_output.keywords)
                        * Hundreds(3 - k)
       IN  fn_output.ret = Max(0, Min(ConfOne, product))

\* C24, amended: the adjusted confidence is the base confidence times three
\* factors, one per keyword class: 1 - 0.15 t for t test keyword occurrences,
\* 1 + 0.05 p for p production keyword occurrences and 1 - 0.25 n for n
\* negative keyword occurrences, clamped to [0,1]
C24_OneFactorPerClass ==
    (fn_output # None /\ fn_output.name = "adjust_confidence_by_context")
    => LET Occurrences(class) ==
               Cardinality({ i \in DOMAIN fn_output.keywords : fn_output.keywords[i] \in class })
           t == Occurrences(TEST_KEYWORDS)
           p == Occurrences(PRODUCTION_KEYWORDS)
           n == Occurrences(NEGATIVE_KEYWORDS)
           product == fn_output.base_confidence * (100 - 15 * t) * (100 + 5 * p) * (100 - 25 * n)
       IN  /\ fn_output.keywords = SelectSeq(Words(Lower(fn_input)), LAMBDA w :
                   w \in TEST_KEYWORDS \cup PRODUCTION_KEYWORDS \cup NEGATIVE_KEYWORDS)
           /\ fn_output.ret = IF product < 0 THEN 0
                              ELSE IF product > ConfOne THEN ConfOne ELSE product

\* C24 witness: the window "test data sample" holds two test keywords and
\* the base confidence 1.0 was adjusted to 0.70
C24_Witness ==
    /\ fn_input = <<"t","e","s","t"," ","d","a","t","a"," ","s","a","m","p","l","e">>
    /\ fn_output # None
    /\ fn_output.name = "adjust_confidence_by_context"
    /\ fn_output.base_confidence = 100
    /\ fn_output.keywords = << <<"t","e","s","t">>, <<"s","a","m","p","l","e">> >>
    /\ fn_output.ret = 70 * 100 * 100 * 100
---------------------------------------------------------------------------
(* The analyzer engine singleton.                                           *)

\* C27: under every interleaving of the threads' get_engine calls, the
\* engine is initialized at most once and all the callers that have returned
\* were given the same instance
C27_OneEngineInstance ==
    /\ engines_initialized <= 1
    /\ \A t, u \in Threads :
          (engine_pc[t] = "done" /\ engine_pc[u] = "done")
              => engine_returned[t] = engine_returned[u]
---------------------------------------------------------------------------
(* The heuristic scanner.                                                   *)

\* C26: for every match the scan scored, the score is 100 when the pattern
\* has a validator and the validator accepts the match, 0 when it has one
\* and the validator rejects the match, and the heuristic score when it has
\* none; so a match that holds "example", "test" or "12345" and whose pattern
\* has no validator scores 0, and no match scoring under 50 is reported
C26_HeuristicStandsWithoutValidator ==
    \A k \in DOMAIN scan_scored :
        LET scored == scan_scored[k]
            validator == get_validator_for_pattern(scored.pattern_name)
            placeholder == \/ Contains(Lower(scored.match_text), <<"e","x","a","m","p","l","e">>)
                           \/ Contains(Lower(scored.match_text), <<"t","e","s","t">>)
                           \/ Contains(scored.match_text, <<"1","2","3","4","5">>)
            reported == \E f \in DOMAIN scan_findings :
                            /\ scan_findings[f].pattern_name = scored.pattern_name
                            /\ scan_findings[f].line_number = scored.line_number
                            /\ scan_findings[f].matches = <<scored.match_text>>
        IN  /\ scored.score = IF validator = "None" THEN scored.heuristic_score
                              ELSE IF CallValidator(validator, scored.match_text) THEN 100
                              ELSE 0
            /\ (placeholder /\ validator = "None") => (scored.score = 0 /\ ~reported)
            /\ scored.score < 50 => ~reported
---------------------------------------------------------------------------

ValNext ==
    \/ ValidateAndCreateFinding
    \/ \E vals \in SUBSET ExclusionInputs : SetExclusionList(vals)

\* the validation pipeline
SpecVal == ValInit /\ [][ValNext]_vars

MaskNext ==
    \/ \E call \in Calls(adapter) : MaskFindings(call)
    \/ \E backup_location \in BackupLocations, target_location \in Targets :
          Rollback(backup_location, target_location)
    \/ \E call \in Calls(adapter) : VerifyMasking(call)
    \/ \E target \in Targets, value \in {<<"9","1","2","3","4","5","6","7","8","9">>, <<"a","@","b",".","c","o">>},
          column \in {EMAIL, NOTES} :
          Reinject(target, value, column)
    \/ Tick

\* the masking adapters
SpecMask == MaskInit /\ [][MaskNext]_vars

StrategiesNext ==
    \/ \E call \in StrategyCalls(adapter) : MaskFindings(call)
    \/ \E call \in StrategyCalls(adapter) : VerifyMasking(call)
    \/ Tick

\* the masking adapters, called with each of the four strategies
SpecStrategies == MaskInit /\ [][StrategiesNext]_vars

ConcNext ==
    \/ \E p \in Procs : CreateBackup(p)
    \/ \E p \in Procs : Read(p)
    \/ \E p \in Procs : OpenForWriting(p)
    \/ \E p \in Procs : Write(p)

\* two concurrent mask_findings calls of the filesystem adapter
SpecConc == ConcInit /\ [][ConcNext]_vars
====
